---- MODULE Spec2Model ----
(***************************************************************************)
(* Centerline generators of the spring platform (cad-worker/freecad).     *)
(*                                                                         *)
(* Arithmetic.  The Python code computes in binary floating point.  The   *)
(* model computes the same formulas over exact rationals <<num, den>>     *)
(* (den > 0, lowest terms), so a property proved here is a property of    *)
(* the formulas in real arithmetic; rounding in the last place of a       *)
(* double is outside the model, except in the radius clamp, which is      *)
(* modelled with rounding.  Tolerances of the code (1e-8, 1e-9, 1e-12)    *)
(* are kept with their exact value.                                       *)
(***************************************************************************)
EXTENDS Integers, Sequences, FiniteSets, TLC

(***************************************************************************)
(* State: one record per generator call.  Every request builds its values *)
(* afresh, so the generators share nothing.                               *)
(***************************************************************************)
VARIABLES
    tor,    \* the torsion angle functions: fn, the arguments (angle, or
            \* active_coils, free_angle_deg, working_angle_deg,
            \* winding_direction), the locals base_angle, target_end_angle,
            \* base_end_angle, extra_angle, the result and pc; angles in degrees
    mk,     \* make_arc_spring: params (each required key absent or with a
            \* number, a null or a text), via (called directly or by main), pc,
            \* error (the exception raised), computed (frames, turn map, solid)
            \* and printed (the keys main names before it exits)
    res,    \* results_to_json: results (the FeaResults: node_stresses of its one
            \* step as node ids, errors, converged), json (the returned dict:
            \* success, node_stresses) and pc
    inp,    \* generate_inp: geom, segments_per_coil, loadcases, pc, the loop index
            \* i, points (the centerline so far), branch (the pitch branch taken
            \* for each increment), nodes, elements and deck (node sets BOTTOM
            \* and TOP and the displacement of each step)
    ext,    \* make_extension_spring under main: formats (the export formats),
            \* pc, failed (the step of the hook + body path that failed, or
            \* "none"), spring (what was built), files (the formats written)
            \* and status (of RESULT_JSON, or "exit 1")
    job,    \* the two HTTP workers: dirs (the job directories that exist) and h,
            \* for each request its worker ("fea" or "cad"), pc, job_id, job_dir,
            \* starts (solver processes started), outcome (of the solver), status
            \* and results of the response
    vp,     \* one call of a vector primitive: fn (unit or rot_axis_angle), the
            \* caller's vectors v and axis before the call (v0, axis0) and now
            \* (v, axis), ang, res (the returned vector) and pc: "called",
            \* "returned", or "idle"
    comp,   \* generate_compression_centerline: params, the loop index i, the z
            \* of points[0], points[-2] and points[-1] (first, prev, last),
            \* min_z, max_z, and pc: "loop" while sampling, "done" after the
            \* return, "idle" when not called
    arc,    \* accumulated_lengths + blended_anchor_turns_map: params (d,
            \* n_active, deadStart, deadEnd, k, capRatio), L (the accumulated
            \* lengths), T (the turn map), ret (totalCoils, Ls, Le, Lb as
            \* returned) and pc: "lengths" while L is accumulated, "mapped"
            \* after the map, "idle" when not called
    hook,   \* one hook centerline: builder (run_export's
            \* build_extension_hook_centerline or hook_builder's
            \* build_hook_centerline), its arguments (d, OD, hookType, is_start,
            \* end_pos, prev_pos), and after the return pts (the centerline)
            \* and ctrl (the four control points of the Bezier transition);
            \* unified, the unified centerline of make_extension_spring where
            \* this hook joins the body; pc: "called", "built", "joined", or
            \* "idle" when not called
    rc,     \* a radius clamp applied repeatedly: impl (which of the three
            \* functions), min_radius, n (number of applications so far), cur
            \* (the point now) and prev (the point before the last application)
    norm,   \* one call of a parameter normalizer: fn (normalize_extension_params
            \* or normalize_torsion_params), geom (the caller's dict, before and
            \* after the call), result (the returned dict) and pc: "called",
            \* "returned", "raised" (a TypeError left the function), or "idle"
    bb,     \* one call of build_arc_backbone_frames: params, the loop index i,
            \* frames (the list built so far), axisZ (the one axis vector all
            \* passes use) and pc: "loop", "done", or "idle" when not called
    wave    \* one call of a wave spring generator: gen (generate_wave_shell_inp
            \* or generate_wave_beam_inp), geometry, i (the loop index), count
            \* (the number of passes), the z of the node appended last and of
            \* the one before (last, prev), and pc: "nodes", "rendered", "idle"

vars == <<comp, arc, hook, rc, norm, wave, bb, vp, job, ext, inp, res, mk, tor>>

\* the state of the other generators
NotComp == <<arc, hook, rc, norm, wave, bb, vp, job, ext, inp, res, mk, tor>>

NotArc == <<comp, hook, rc, norm, wave, bb, vp, job, ext, inp, res, mk, tor>>

NotClamp == <<comp, arc, hook, norm, wave, bb, vp, job, ext, inp, res, mk, tor>>

NotHook == <<comp, arc, rc, norm, wave, bb, vp, job, ext, inp, res, mk, tor>>

NotNorm == <<comp, arc, hook, rc, wave, bb, vp, job, ext, inp, res, mk, tor>>

NotWave == <<comp, arc, hook, rc, norm, bb, vp, job, ext, inp, res, mk, tor>>

NotBackbone == <<comp, arc, hook, rc, norm, wave, vp, job, ext, inp, res, mk, tor>>

NotPrimitive == <<comp, arc, hook, rc, norm, wave, bb, job, ext, inp, res, mk, tor>>

NotJobs == <<comp, arc, hook, rc, norm, wave, bb, vp, ext, inp, res, mk, tor>>

NotExtension == <<comp, arc, hook, rc, norm, wave, bb, vp, job, inp, res, mk, tor>>

NotInp == <<comp, arc, hook, rc, norm, wave, bb, vp, job, ext, res, mk, tor>>

NotResults == <<comp, arc, hook, rc, norm, wave, bb, vp, job, ext, inp, mk, tor>>

NotMakeArc == <<comp, arc, hook, rc, norm, wave, bb, vp, job, ext, inp, res, tor>>

NotTorsionAngle == <<comp, arc, hook, rc, norm, wave, bb, vp, job, ext, inp, res, mk>>

(***************************************************************************)
(* Exact rational arithmetic                                               *)
(***************************************************************************)
Abs(i) == IF i < 0 THEN -i ELSE i

RECURSIVE GCD(_, _)
GCD(a, b) == IF b = 0 THEN a ELSE GCD(b, a % b)

\* the rational n/d in lowest terms, d # 0
Q(n, d) ==
    LET g == GCD(Abs(n), Abs(d))
        s == IF d < 0 THEN -1 ELSE 1
    IN  <<(s * n) \div g, (s * d) \div g>>

I(n) == <<n, 1>>

RAdd(a, b) ==
    LET g  == GCD(a[2], b[2])
        ka == b[2] \div g
        kb == a[2] \div g
    IN  Q(a[1] * ka + b[1] * kb, a[2] * ka)

RNeg(a) == <<-a[1], a[2]>>

RSub(a, b) == RAdd(a, RNeg(b))

RMul(a, b) ==
    LET g1 == GCD(Abs(a[1]), b[2])
        g2 == GCD(Abs(b[1]), a[2])
    IN  Q((a[1] \div g1) * (b[1] \div g2), (a[2] \div g2) * (b[2] \div g1))

\* a / b, b # 0 (the callers guard the division as the code does)
RDiv(a, b) == RMul(a, Q(b[2], b[1]))

RLt(a, b) ==
    LET g == GCD(a[2], b[2])
    IN  a[1] * (b[2] \div g) < b[1] * (a[2] \div g)

RLe(a, b) == ~RLt(b, a)

RMax(a, b) == IF RLt(a, b) THEN b ELSE a

RMin(a, b) == IF RLt(b, a) THEN b ELSE a

\* Python's float('inf') and float('-inf'), compared as Python compares them
PosInf == <<1, 0>>

NegInf == <<-1, 0>>

PyMin(a, b) == IF a = PosInf THEN b ELSE RMin(a, b)

PyMax(a, b) == IF a = NegInf THEN b ELSE RMax(a, b)

\* x <= 1/(t1*t2) and x < 1/(t1*t2) for a rational x: the tolerances 1e-8,
\* 1e-9, 1e-12 and 1e-16 of the code, compared without a product that would
\* leave TLC's integers
TinyLe(x, t1, t2) == x[1] <= (x[2] \div t1) \div t2

CeilDiv(a, b) == (a + b - 1) \div b

TinyLt(x, t1, t2) == x[1] < CeilDiv(CeilDiv(x[2], t1), t2)

RAbs(a) == <<Abs(a[1]), a[2]>>

(***************************************************************************)
(* X^2 + Y^2 against M^2 for integers whose squares leave TLC's integers:  *)
(* three limbs to the base 4096                                            *)
(***************************************************************************)
LimbBase == 2^12

SqLimbs(X) ==
    LET a == Abs(X) \div LimbBase
        b == Abs(X) % LimbBase
    IN  <<a * a, 2 * a * b, b * b>>

\* carries propagated: <<high, middle, low>>, middle and low below LimbBase
Carry(t) ==
    LET u1 == t[2] + (t[3] \div LimbBase)
    IN  <<t[1] + (u1 \div LimbBase), u1 % LimbBase, t[3] % LimbBase>>

SqSum(X, Y) ==
    Carry(<<SqLimbs(X)[1] + SqLimbs(Y)[1], SqLimbs(X)[2] + SqLimbs(Y)[2],
            SqLimbs(X)[3] + SqLimbs(Y)[3]>>)

LimbsLt(s, t) ==
    \/ s[1] < t[1]
    \/ s[1] = t[1] /\ s[2] < t[2]
    \/ s[1] = t[1] /\ s[2] = t[2] /\ s[3] < t[3]

LCM(a, b) == (a \div GCD(a, b)) * b

\* x^2 + y^2 < m^2 for rationals x, y, m
SqSumLt(x, y, m) ==
    LET D == LCM(LCM(x[2], y[2]), m[2])
    IN  LimbsLt(SqSum(x[1] * (D \div x[2]), y[1] * (D \div y[2])),
                SqSum(m[1] * (D \div m[2]), 0))

(***************************************************************************)
(* Compression spring centerline: generate_compression_centerline          *)
(***************************************************************************)
\* bounds of the inputs
MaxCoils == 4

num_samples == 800

CoilCounts == {I(c) : c \in 0..MaxCoils}

WireDiameters == {I(1), Q(3, 2)}

FreeLengths == {I(3), I(12)}

Deflections == {I(0), I(2), I(20)}

CompressionParams ==
    [totalCoils : CoilCounts, activeCoils : CoilCounts, meanDiameter : {I(24)},
     wireDiameter : WireDiameters, freeLength : FreeLengths,
     currentDeflection : Deflections]

dead_coils(p) == RSub(p.totalCoils, p.activeCoils)

dead_coils_per_end(p) == RDiv(dead_coils(p), I(2))

pitch_dead(p) == p.wireDiameter

\* mutant: the dead coils of one end only
dead_height_OneEnd(p) == RMul(dead_coils_per_end(p), pitch_dead(p))

dead_height(p) == RMul(dead_coils(p), pitch_dead(p))

Hb(p) == RSub(p.freeLength, dead_height(p))

\* mutants: the floor at solid height left out, or taken at zero
Hb_compressed_NoFloor(p) == RSub(Hb(p), p.currentDeflection)

Hb_compressed_FloorZero(p) == RMax(RSub(Hb(p), p.currentDeflection), I(0))

Hb_compressed(p) ==
    RMax(RSub(Hb(p), p.currentDeflection), RMul(p.activeCoils, pitch_dead(p)))

pitch_active_compressed(p) ==
    IF RLt(I(0), p.activeCoils) THEN RDiv(Hb_compressed(p), p.activeCoils)
    ELSE p.wireDiameter

\* n = theta / (2 pi) with theta = (i / num_samples) * 2 pi * total_coils
TurnAt(p, i) == RMul(Q(i, num_samples), p.totalCoils)

\* Case A: bottom dead coils
ZCaseA(p, n) == RMul(pitch_dead(p), n)

\* mutant: the top dead coils stacked on the free, uncompressed active height
ZCaseC_FreeHeight(p, n) ==
    LET n_dead_top == RSub(n, RSub(p.totalCoils, dead_coils_per_end(p)))
        bottom_dead_height == RMul(dead_coils_per_end(p), pitch_dead(p))
    IN  RAdd(RAdd(bottom_dead_height, Hb(p)), RMul(n_dead_top, pitch_dead(p)))

\* Case C: top dead coils
ZCaseC(p, n) ==
    LET n_dead_top == RSub(n, RSub(p.totalCoils, dead_coils_per_end(p)))
        bottom_dead_height == RMul(dead_coils_per_end(p), pitch_dead(p))
    IN  RAdd(RAdd(bottom_dead_height, Hb_compressed(p)), RMul(n_dead_top, pitch_dead(p)))

\* Case B: active coils
ZCaseB(p, n) ==
    LET n_active == RSub(n, dead_coils_per_end(p))
        bottom_dead_height == RMul(dead_coils_per_end(p), pitch_dead(p))
    IN  RAdd(bottom_dead_height, RMul(pitch_active_compressed(p), n_active))

ZAt(p, n) ==
    IF RLe(n, dead_coils_per_end(p)) THEN ZCaseA(p, n)
    ELSE IF RLe(RSub(p.totalCoils, dead_coils_per_end(p)), n) THEN ZCaseC(p, n)
    ELSE ZCaseB(p, n)

CompIdle ==
    [params |-> [totalCoils |-> I(0), activeCoils |-> I(0), meanDiameter |-> I(0),
                 wireDiameter |-> I(0), freeLength |-> I(0), currentDeflection |-> I(0)],
     pc |-> "idle", i |-> 0, first |-> PosInf, prev |-> PosInf, last |-> PosInf,
     min_z |-> PosInf, max_z |-> NegInf]

CompStart(p) == [CompIdle EXCEPT !.params = p, !.pc = "loop"]

\* one iteration of the sampling loop: points.append, min_z, max_z
CompSample ==
    /\ comp.pc = "loop"
    /\ comp.i <= num_samples
    /\ \E z \in {ZAt(comp.params, TurnAt(comp.params, comp.i))} :
           comp' = [comp EXCEPT !.first = IF comp.i = 0 THEN z ELSE @,
                                !.prev = comp.last,
                                !.last = z,
                                !.min_z = PyMin(@, z),
                                !.max_z = PyMax(@, z),
                                !.i = @ + 1]
    /\ UNCHANGED NotComp

\* return points, min_z, max_z
CompReturn ==
    /\ comp.pc = "loop"
    /\ comp.i = num_samples + 1
    /\ comp' = [comp EXCEPT !.pc = "done"]
    /\ UNCHANGED NotComp

(***************************************************************************)
(* Claims on the compression centerline                                    *)
(***************************************************************************)
\* turn count of the sample appended last
LastTurn == TurnAt(comp.params, comp.i - 1)

BottomBoundary == dead_coils_per_end(comp.params)

TopBoundary == RSub(comp.params.totalCoils, dead_coils_per_end(comp.params))

ValidCoils ==
    /\ RLt(I(0), comp.params.wireDiameter)
    /\ RLt(I(0), comp.params.activeCoils)
    /\ RLt(comp.params.activeCoils, comp.params.totalCoils)

SolidHeight == RMul(comp.params.totalCoils, comp.params.wireDiameter)

\* C1: for wireDiameter > 0, activeCoils > 0, totalCoils > activeCoils and any
\* deflection, the dead-coil and the active-coil formula give the same Z at
\* n = deadCoilsPerEnd and at n = totalCoils - deadCoilsPerEnd, and a sample
\* that falls on a boundary has that Z.
C1_BoundaryContinuity ==
    ValidCoils =>
        /\ ZCaseA(comp.params, BottomBoundary) = ZCaseB(comp.params, BottomBoundary)
        /\ ZCaseB(comp.params, TopBoundary) = ZCaseC(comp.params, TopBoundary)
        /\ (comp.i > 0 /\ LastTurn \in {BottomBoundary, TopBoundary})
              => comp.last = ZCaseB(comp.params, LastTurn)

C1_Witness ==
    /\ ValidCoils
    /\ RLt(I(0), comp.params.currentDeflection)
    /\ comp.i > 0
    /\ LastTurn = TopBoundary

\* C2 as stated: with currentDeflection = 0 the Z span of the returned
\* centerline equals freeLength for all positive wireDiameter, meanDiameter,
\* activeCoils and totalCoils > activeCoils.
C2_SpanEqualsFreeLength ==
    (comp.pc = "done" /\ ValidCoils /\ RLt(I(0), comp.params.meanDiameter)
        /\ comp.params.currentDeflection = I(0))
    => RSub(comp.last, comp.first) = comp.params.freeLength

\* C2 amended: the same, for a freeLength of at least the solid height
\* totalCoils * wireDiameter.
C2_SpanEqualsFreeLengthAboveSolid ==
    (comp.pc = "done" /\ ValidCoils /\ RLt(I(0), comp.params.meanDiameter)
        /\ comp.params.currentDeflection = I(0)
        /\ RLe(SolidHeight, comp.params.freeLength))
    => RSub(comp.last, comp.first) = comp.params.freeLength

C2_Witness ==
    /\ comp.pc = "done"
    /\ ValidCoils
    /\ comp.params.currentDeflection = I(0)
    /\ RLt(SolidHeight, comp.params.freeLength)
    /\ RSub(comp.last, comp.first) = comp.params.freeLength

C4_NeverBelowSolid ==
    RLe(I(0), comp.params.currentDeflection) =>
        /\ RLe(RMul(comp.params.activeCoils, comp.params.wireDiameter), Hb_compressed(comp.params))
        /\ (comp.i > 0 /\ RLe(LastTurn, RSub(comp.params.totalCoils, I(1))))
              => RLe(comp.params.wireDiameter,
                     RSub(ZAt(comp.params, RAdd(LastTurn, I(1))), comp.last))

\* compressed to solid, a turn that starts inside the active coils
C4_Witness ==
    /\ ValidCoils
    /\ Hb_compressed(comp.params) = RMul(comp.params.activeCoils, comp.params.wireDiameter)
    /\ RLt(RMul(comp.params.activeCoils, comp.params.wireDiameter), Hb(comp.params))
    /\ comp.i > 0
    /\ RLt(BottomBoundary, LastTurn)
    /\ RLe(LastTurn, RSub(comp.params.totalCoils, I(1)))
    /\ RSub(ZAt(comp.params, RAdd(LastTurn, I(1))), comp.last) = comp.params.wireDiameter

\* no active coil, or a free length shorter than the dead coils stacked solid
DegenerateCompression(p) ==
    \/ RLe(p.activeCoils, I(0))
    \/ RLt(p.freeLength, RMul(RSub(p.totalCoils, p.activeCoils), p.wireDiameter))

\* C18: degenerate compression geometry (activeCoils <= 0, or freeLength <
\* (totalCoils - activeCoils) * wireDiameter) ends in an error: the generator
\* never returns a centerline for it.
C18_DegenerateIsFailure ==
    comp.pc = "done" => ~DegenerateCompression(comp.params)

(***************************************************************************)
(* Arc spring: accumulated_lengths and blended_anchor_turns_map            *)
(***************************************************************************)
\* bound: number of backbone frames (samples)
MaxFrames == 4

\* 1e-9 is 1 / OneE9, 1e-12 is 1 / (OneE6 * OneE6)
OneE9 == 1000000000

OneE6 == 1000000

\* chord lengths |frames[i].p - frames[i-1].p| between consecutive frames
ArcChords == {I(0), I(1), I(3)}

ArcParams ==
    [d : {I(1), I(2)}, n_active : {I(0), I(2), I(4)}, deadStart : {I(0), I(1), I(2)},
     deadEnd : {I(0), I(1), I(3)}, k : {I(0), Q(1, 2), I(1), I(2)},
     capRatio : {Q(19, 20), Q(1, 2)}]

clamp(x, a, b) == RMax(a, RMin(b, x))

Ltot_of(L) == L[Len(L)]

\* mutant: the dead coils of the far end left out of the total
ArcTotalCoils_NoDeadEnd(p) == RAdd(p.n_active, p.deadStart)

ArcTotalCoils(p) == RAdd(RAdd(p.n_active, p.deadStart), p.deadEnd)

\* totalCoils <= 1e-12 or Ltot <= 1e-12
ArcDegenerate(p, Ltot) ==
    TinyLe(ArcTotalCoils(p), OneE6, OneE6) \/ TinyLe(Ltot, OneE6, OneE6)

ArcK(p) == clamp(p.k, I(0), I(1))

Ls_solid(p) == RMul(p.deadStart, p.d)

Le_solid(p) == RMul(p.deadEnd, p.d)

Ls_uniform(p, Ltot) ==
    IF RLt(I(0), ArcTotalCoils(p)) THEN RMul(RDiv(p.deadStart, ArcTotalCoils(p)), Ltot)
    ELSE I(0)

Le_uniform(p, Ltot) ==
    IF RLt(I(0), ArcTotalCoils(p)) THEN RMul(RDiv(p.deadEnd, ArcTotalCoils(p)), Ltot)
    ELSE I(0)

\* the anchors before the cap
anchorLs0(p, Ltot) ==
    RAdd(RMul(Ls_uniform(p, Ltot), RSub(I(1), ArcK(p))), RMul(Ls_solid(p), ArcK(p)))

anchorLe0(p, Ltot) ==
    RAdd(RMul(Le_uniform(p, Ltot), RSub(I(1), ArcK(p))), RMul(Le_solid(p), ArcK(p)))

sumLen(p, Ltot) == RAdd(anchorLs0(p, Ltot), anchorLe0(p, Ltot))

maxAllowed(p, Ltot) == RMul(p.capRatio, Ltot)

\* sumLen > maxAllowed and sumLen > 1e-12
CapExceeded(p, Ltot) ==
    /\ RLt(maxAllowed(p, Ltot), sumLen(p, Ltot))
    /\ ~TinyLe(sumLen(p, Ltot), OneE6, OneE6)

CapScale(p, Ltot) == RDiv(maxAllowed(p, Ltot), sumLen(p, Ltot))

anchorLs(p, Ltot) ==
    IF CapExceeded(p, Ltot) THEN RMul(anchorLs0(p, Ltot), CapScale(p, Ltot))
    ELSE anchorLs0(p, Ltot)

\* mutant: the cap scales the start anchor only
anchorLe_Unscaled(p, Ltot) == anchorLe0(p, Ltot)

anchorLe(p, Ltot) ==
    IF CapExceeded(p, Ltot) THEN RMul(anchorLe0(p, Ltot), CapScale(p, Ltot))
    ELSE anchorLe0(p, Ltot)

\* max(1e-9, x)
Max1e9(x) == IF TinyLe(x, OneE9, 1) THEN <<1, OneE9>> ELSE x

\* zone [0, Ls]
TStartZone(p, Ls, curL) == RMul(p.deadStart, RDiv(curL, Max1e9(Ls)))

\* zone [Lb, Ltot]
TEndZone(p, Lb, Le, curL) ==
    LET u == clamp(RDiv(RSub(curL, Lb), Max1e9(Le)), I(0), I(1))
    IN  RAdd(RAdd(p.deadStart, p.n_active), RMul(p.deadEnd, u))

\* mutant: the active zone starts again from zero turns
TActiveZone_NoOffset(p, Ls, Lb, curL) ==
    LET activeRange == Max1e9(RSub(Lb, Ls))
        u == clamp(RDiv(RSub(curL, Ls), activeRange), I(0), I(1))
    IN  RMul(p.n_active, u)

\* the zone between
TActiveZone(p, Ls, Lb, curL) ==
    LET activeRange == Max1e9(RSub(Lb, Ls))
        u == clamp(RDiv(RSub(curL, Ls), activeRange), I(0), I(1))
    IN  RAdd(p.deadStart, RMul(p.n_active, u))

\* the body of the loop over L
TurnOf(p, Ls, Le, Lb, curL) ==
    IF TinyLe(RSub(curL, Ls), OneE9, 1) THEN TStartZone(p, Ls, curL)
    ELSE IF TinyLe(RSub(Lb, curL), OneE9, 1) THEN TEndZone(p, Lb, Le, curL)
    ELSE TActiveZone(p, Ls, Lb, curL)

\* T[0] = 0.0 ; T[-1] = totalCoils
PinEnds(T, totalCoils) ==
    [i \in 1..Len(T) |-> IF i = Len(T) THEN totalCoils ELSE IF i = 1 THEN I(0) ELSE T[i]]

\* the loop over L and the pins, for the anchors Ls, Le and Lb = Ltot - Le
TurnMap(L, p, Ls, Le, Lb) ==
    [T |-> PinEnds([i \in 1..Len(L) |-> TurnOf(p, Ls, Le, Lb, L[i])], ArcTotalCoils(p)),
     totalCoils |-> ArcTotalCoils(p), Ls |-> Ls, Le |-> Le, Lb |-> Lb]

\* T, totalCoils, Ls, Le, Lb as returned
blended_anchor_turns_map(L, Ltot, p) ==
    IF ArcDegenerate(p, Ltot)
    THEN [T |-> [i \in 1..Len(L) |-> I(0)], totalCoils |-> I(0),
          Ls |-> I(0), Le |-> I(0), Lb |-> I(0)]
    ELSE CHOOSE r \in {TurnMap(L, p, ls, le, RSub(Ltot, le)) :
                         ls \in {anchorLs(p, Ltot)}, le \in {anchorLe(p, Ltot)}} : TRUE

NoReturn == [totalCoils |-> I(0), Ls |-> I(0), Le |-> I(0), Lb |-> I(0)]

ArcIdle ==
    [params |-> [d |-> I(0), n_active |-> I(0), deadStart |-> I(0), deadEnd |-> I(0),
                 k |-> I(0), capRatio |-> I(0)],
     pc |-> "idle", L |-> <<>>, T |-> <<>>, ret |-> NoReturn]

\* L = [0.0] * len(frames): L[0] stays 0
ArcStart(p) == [ArcIdle EXCEPT !.params = p, !.pc = "lengths", !.L = <<I(0)>>]

\* accumulated_lengths: one iteration, Ltot += chord ; L[i] = Ltot
ArcAccumulate ==
    /\ arc.pc = "lengths"
    /\ Len(arc.L) < MaxFrames
    /\ \E chord \in ArcChords :
           arc' = [arc EXCEPT !.L = Append(@, RAdd(Ltot_of(arc.L), chord))]
    /\ UNCHANGED NotArc

\* make_arc_spring step 2: the turn map of the backbone (two frames or more)
ArcMap ==
    /\ arc.pc = "lengths"
    /\ Len(arc.L) >= 2
    /\ \E r \in {blended_anchor_turns_map(arc.L, Ltot_of(arc.L), arc.params)} :
           arc' = [arc EXCEPT !.T = r.T,
                              !.ret = [totalCoils |-> r.totalCoils, Ls |-> r.Ls,
                                       Le |-> r.Le, Lb |-> r.Lb],
                              !.pc = "mapped"]
    /\ UNCHANGED NotArc

(***************************************************************************)
(* Claims on the turn map                                                  *)
(***************************************************************************)
ArcLtot == Ltot_of(arc.L)

ArcSum == RAdd(RAdd(arc.params.n_active, arc.params.deadStart), arc.params.deadEnd)

KInRange == RLe(I(0), arc.params.k) /\ RLe(arc.params.k, I(1))

C6_AnchorCap ==
    arc.pc = "mapped" =>
        /\ RLe(RAdd(arc.ret.Ls, arc.ret.Le), RMul(arc.params.capRatio, ArcLtot))
        /\ RLt(RMul(arc.params.capRatio, ArcLtot), sumLen(arc.params, ArcLtot))
             => RMul(arc.ret.Ls, anchorLe0(arc.params, ArcLtot))
                  = RMul(arc.ret.Le, anchorLs0(arc.params, ArcLtot))

\* k = 1, dead coils outnumbering the active ones, the cap reached
C6_Witness ==
    /\ arc.pc = "mapped"
    /\ arc.params.k = I(1)
    /\ RLt(arc.params.n_active, RAdd(arc.params.deadStart, arc.params.deadEnd))
    /\ RLt(I(0), arc.params.deadStart)
    /\ RLt(I(0), arc.params.deadEnd)
    /\ RLt(RMul(arc.params.capRatio, ArcLtot), sumLen(arc.params, ArcLtot))
    /\ RAdd(arc.ret.Ls, arc.ret.Le) = RMul(arc.params.capRatio, ArcLtot)

MantissaBits == 8

RECURSIVE FlScale(_, _, _)
\* n/d brought into [2^(p-1), 2^p) by powers of two: <<n, d, exponent>>
FlScale(n, d, e) ==
    IF n >= d * 2^MantissaBits THEN FlScale(n, 2 * d, e + 1)
    ELSE IF n < d * 2^(MantissaBits - 1) THEN FlScale(2 * n, d, e - 1)
    ELSE <<n, d, e>>

RoundHalfEven(n, d) ==
    LET m == n \div d
        rem == n % d
    IN  IF 2 * rem > d \/ (2 * rem = d /\ m % 2 = 1) THEN m + 1 ELSE m

Scale2(m, e) == IF e >= 0 THEN Q(m * 2^e, 1) ELSE Q(m, 2^(-e))

\* the float nearest to the rational q
Fl(q) ==
    IF q[1] = 0 THEN I(0)
    ELSE LET s == FlScale(Abs(q[1]), q[2], 0)
             v == Scale2(RoundHalfEven(s[1], s[2]), s[3])
         IN  IF q[1] < 0 THEN RNeg(v) ELSE v

FAdd(a, b) == Fl(RAdd(a, b))

FMul(a, b) == Fl(RMul(a, b))

FDiv(a, b) == Fl(RDiv(a, b))

RECURSIVE SqrtScale(_, _, _)
\* n/d brought into [4^(p-1), 4^p) by powers of four
SqrtScale(n, d, e) ==
    IF n >= d * 4^MantissaBits THEN SqrtScale(n, 4 * d, e + 1)
    ELSE IF n < d * 4^(MantissaBits - 1) THEN SqrtScale(4 * n, d, e - 1)
    ELSE <<n, d, e>>

\* math.sqrt, correctly rounded
FSqrt(q) ==
    IF q[1] = 0 THEN I(0)
    ELSE LET s == SqrtScale(q[1], q[2], 0)
             n == s[1]
             d == s[2]
             f == CHOOSE f \in 2^(MantissaBits - 1) .. 2^MantissaBits - 1 :
                      f * f * d <= n /\ (f + 1) * (f + 1) * d > n
             h == (2 * f + 1) * (2 * f + 1) * d
             up == h < 4 * n \/ (h = 4 * n /\ f % 2 = 1)
         IN  Fl(Scale2(IF up THEN f + 1 ELSE f, s[3]))

(***************************************************************************)
(* The radius clamp: hook_builder.clamp_radius, run_export.clamp_radius    *)
(* and spring_export.clamp_radius_min on a point [x, y, z] of floats       *)
(***************************************************************************)
OneE8 == 100000000

Vec(x, y, z) == [x |-> x, y |-> y, z |-> z]

\* math.sqrt(point.x**2 + point.y**2)
XYRadius(point) == FSqrt(FAdd(FMul(point.x, point.x), FMul(point.y, point.y)))

\* mutant: the quotient inverted, scale = r / min_radius
Rescaled_Inverted(point, min_radius, r) ==
    LET scale == FDiv(r, min_radius)
    IN  Vec(FMul(point.x, scale), FMul(point.y, scale), point.z)

\* App.Vector(point.x * scale, point.y * scale, point.z), scale = min_radius / r
Rescaled(point, min_radius, r) ==
    LET scale == FDiv(min_radius, r)
    IN  Vec(FMul(point.x, scale), FMul(point.y, scale), point.z)

\* run_export.clamp_radius
clamp_radius(point, min_radius) ==
    LET r == XYRadius(point)
    IN  IF RLt(r, min_radius) /\ ~TinyLe(r, OneE8, 1)
        THEN Rescaled(point, min_radius, r)
        ELSE point

\* hook_builder.clamp_radius
hb_clamp_radius(point, min_radius) ==
    LET r == XYRadius(point)
    IN  IF RLt(r, min_radius) /\ ~TinyLe(r, OneE8, 1)
        THEN Rescaled(point, min_radius, r)
        ELSE point

\* App.Vector.Length of (x, y, 0)
VecLength0(p) ==
    FSqrt(FAdd(FAdd(FMul(p.x, p.x), FMul(p.y, p.y)), I(0)))

\* App.Vector.normalize of (x, y, 0): each coordinate divided by the length,
\* unless the length is 0 or 1
Normalized0(p, len) ==
    IF len = I(0) \/ len = I(1) THEN p
    ELSE Vec(FDiv(p.x, len), FDiv(p.y, len), I(0))

\* spring_export.clamp_radius_min
clamp_radius_min(p, min_r) ==
    LET r_len == VecLength0(p)
        r_vec == Normalized0(p, r_len)
    IN  IF TinyLt(r_len, OneE8, 1) THEN p
        ELSE IF RLt(r_len, min_r)
        THEN Vec(FMul(r_vec.x, min_r), FMul(r_vec.y, min_r), p.z)
        ELSE p

ClampImpls == {"hook_builder.clamp_radius", "run_export.clamp_radius",
               "spring_export.clamp_radius_min"}

ClampBy(impl, p, m) ==
    CASE impl = "hook_builder.clamp_radius" -> hb_clamp_radius(p, m)
      [] impl = "run_export.clamp_radius" -> clamp_radius(p, m)
      [] OTHER -> clamp_radius_min(p, m)

\* bound: how often the clamp is applied to its own result
MaxClamps == 2

ClampCoords == {I(-2), I(0), Q(1, 2), I(1), I(3), I(4)}

ClampRadii == {I(-1), I(0), I(3), I(6), I(8)}

ClampIdle ==
    [impl |-> "none", min_radius |-> I(0), n |-> 0, cur |-> Vec(I(0), I(0), I(0)),
     prev |-> Vec(I(0), I(0), I(0))]

ClampStart(impl, p, m) ==
    [impl |-> impl, min_radius |-> m, n |-> 0, cur |-> p, prev |-> p]

\* p = clamp(p, min_radius)
ApplyClamp ==
    /\ rc.impl \in ClampImpls
    /\ rc.n < MaxClamps
    /\ \E q \in {ClampBy(rc.impl, rc.cur, rc.min_radius)} :
           rc' = [rc EXCEPT !.prev = rc.cur, !.cur = q, !.n = @ + 1]
    /\ UNCHANGED NotClamp

(***************************************************************************)
(* Claim on the radius clamp                                               *)
(***************************************************************************)
\* |a - b| <= |b| * 2^(3 - MantissaBits): equal up to eight units of roundoff
RelClose(a, b) ==
    RLe(RMul(RAbs(RSub(a, b)), I(2^(MantissaBits - 3))), RAbs(b))

\* C8, as stated: for each of the three implementations, every point and every
\* minimum radius, a second application of the clamp returns the point the
\* first application returned.
C8_ClampIdempotent == rc.n >= 2 => rc.cur = rc.prev

\* C8, amended: a second application returns the same z, and an x and a y
\* within eight units of roundoff of those the first application returned.
C8_ClampIdempotentUpToRounding ==
    rc.n >= 2 =>
        /\ rc.cur.z = rc.prev.z
        /\ RelClose(rc.cur.x, rc.prev.x)
        /\ RelClose(rc.cur.y, rc.prev.y)

\* the first application moved the point out to a computed radius just below
\* the minimum, and the second application moved it again
C8_Witness ==
    /\ rc.n = 2
    /\ rc.cur # rc.prev
    /\ RelClose(rc.cur.x, rc.prev.x)
    /\ RelClose(rc.cur.y, rc.prev.y)
    /\ RLt(XYRadius(rc.prev), rc.min_radius)

(***************************************************************************)
(* Vectors (App.Vector) over exact rationals                               *)
(***************************************************************************)
VAdd(a, b) == Vec(RAdd(a.x, b.x), RAdd(a.y, b.y), RAdd(a.z, b.z))

VSub(a, b) == Vec(RSub(a.x, b.x), RSub(a.y, b.y), RSub(a.z, b.z))

VScale(a, k) == Vec(RMul(a.x, k), RMul(a.y, k), RMul(a.z, k))

VDot(a, b) == RAdd(RAdd(RMul(a.x, b.x), RMul(a.y, b.y)), RMul(a.z, b.z))

VCross(a, b) ==
    Vec(RSub(RMul(a.y, b.z), RMul(a.z, b.y)),
        RSub(RMul(a.z, b.x), RMul(a.x, b.z)),
        RSub(RMul(a.x, b.y), RMul(a.y, b.x)))

RECURSIVE ISqrtBetween(_, _, _)
\* the largest s in lo..hi with s * s <= n
ISqrtBetween(n, lo, hi) ==
    IF lo >= hi THEN lo
    ELSE LET mid == (lo + hi + 1) \div 2
         IN  IF mid * mid <= n THEN ISqrtBetween(n, mid, hi)
             ELSE ISqrtBetween(n, lo, mid - 1)

\* the root of a perfect square; the inputs of the hook builders are chosen so
\* that every length taken is rational, and no other root has a value here
ExactRoot(n) ==
    CHOOSE r \in {ISqrtBetween(n, 0, IF n < 46340 THEN n ELSE 46340)} : r * r = n

RSqrt(q) == Q(ExactRoot(q[1]), ExactRoot(q[2]))

\* App.Vector.Length
VLength(a) == RSqrt(VDot(a, a))

\* App.Vector.normalize: divides by the length unless it is 0 or 1
VNormalize(a) ==
    LET len == VLength(a)
    IN  IF len = I(0) \/ len = I(1) THEN a
        ELSE Vec(RDiv(a.x, len), RDiv(a.y, len), RDiv(a.z, len))

\* a.Length < 1e-8
VTiny(a) == TinyLt(VLength(a), OneE8, 1)

\* cos and sin of an angle in degrees, where they are rational
Quadrant(deg) == CHOOSE q \in 0..3 : deg[2] = 1 /\ deg[1] % 90 = 0 /\ (deg[1] \div 90) % 4 = q

CosDeg(deg) == I(CASE Quadrant(deg) = 0 -> 1 [] Quadrant(deg) = 2 -> -1 [] OTHER -> 0)

SinDeg(deg) == I(CASE Quadrant(deg) = 1 -> 1 [] Quadrant(deg) = 3 -> -1 [] OTHER -> 0)

\* a point of a hook loop, center + u * (r * cos) + v * (r * sin), kept by its
\* angle: its coordinates are irrational at all but the quarter turns
LoopPoint(center, u, v, r, deg) ==
    [center |-> center, u |-> u, v |-> v, r |-> r, deg |-> deg]

\* the coordinates of a loop point at a quarter turn
LoopXYZ(lp) ==
    VAdd(VAdd(lp.center, VScale(lp.u, RMul(lp.r, CosDeg(lp.deg)))),
         VScale(lp.v, RMul(lp.r, SinDeg(lp.deg))))

\* cubic_bezier of run_export.py and hook_builder.py
cubic_bezier(p0, p1, p2, p3, t) ==
    LET omt == RSub(I(1), t)
    IN  VAdd(VAdd(VAdd(VScale(p0, RMul(RMul(omt, omt), omt)),
                       VScale(p1, RMul(RMul(RMul(I(3), omt), omt), t))),
                  VScale(p2, RMul(RMul(RMul(I(3), omt), t), t))),
             VScale(p3, RMul(RMul(t, t), t)))

Reverse(seq) == [i \in 1..Len(seq) |-> seq[Len(seq) + 1 - i]]

(***************************************************************************)
(* run_export.build_extension_hook_centerline                              *)
(***************************************************************************)
hook_radius_factor == Q(17, 20)

axial_gap_factor == Q(6, 5)

handle_length_factor == I(2)

loop_angle_deg == I(160)

loop_start_angle == I(-90)

loop_segments == 36

transition_segments == 24

MeanRadius(d, OD) == RDiv(RSub(OD, d), I(2))

spring_axis_dir(is_start) == Vec(I(0), I(0), IF is_start THEN I(-1) ELSE I(1))

\* from the axis to the end point, in the XY plane
radial_dir(end_pos) ==
    LET r == Vec(end_pos.x, end_pos.y, I(0))
    IN  IF VTiny(r) THEN Vec(I(1), I(0), I(0)) ELSE VNormalize(r)

helix_tangent_dir(end_pos, prev_pos, is_start) ==
    VNormalize(IF ~is_start THEN VSub(end_pos, prev_pos)
               ELSE VScale(VSub(prev_pos, end_pos), I(-1)))

\* the whole function: <<centerline, control points of the transition>>.
\* hook_type is read from params and used nowhere after.
build_extension_hook_centerline(end_pos, prev_pos, d, OD, hook_type, is_start) ==
    LET R == MeanRadius(d, OD)
        hook_radius == RMul(R, hook_radius_factor)
        hook_gap == RMul(d, axial_gap_factor)
        handle_length == RMul(d, handle_length_factor)
        axis == spring_axis_dir(is_start)
        u == VNormalize(axis)
        v == VNormalize(VCross(radial_dir(end_pos), axis))
        loop_center ==
            Vec(I(0), I(0), RAdd(end_pos.z, IF ~is_start THEN hook_gap ELSE RNeg(hook_gap)))
        hook_loop_pts ==
            [i \in 1..(loop_segments + 1) |->
                LoopPoint(loop_center, u, v, hook_radius,
                          RAdd(loop_start_angle,
                               RMul(loop_angle_deg, Q(i - 1, loop_segments))))]
        attach_point == LoopXYZ(hook_loop_pts[1])
        hook_tangent ==
            VNormalize(VAdd(VScale(u, RNeg(SinDeg(loop_start_angle))),
                            VScale(v, CosDeg(loop_start_angle))))
        control1 ==
            VAdd(end_pos, VScale(helix_tangent_dir(end_pos, prev_pos, is_start), handle_length))
        control2 == VSub(attach_point, VScale(hook_tangent, handle_length))
        transition_pts ==
            [i \in 1..transition_segments |->
                IF i = transition_segments THEN attach_point
                ELSE cubic_bezier(end_pos, control1, control2, attach_point,
                                  Q(i, transition_segments))]
    IN  <<IF ~is_start THEN transition_pts \o Tail(hook_loop_pts)
          ELSE SubSeq(Reverse(hook_loop_pts), 1, loop_segments) \o Reverse(transition_pts),
          <<end_pos, control1, control2, attach_point>>>>

(***************************************************************************)
(* hook_builder: get_hook_spec, get_helix_end_info, build_hook_centerline  *)
(***************************************************************************)
HookKinds == {"machine", "side", "crossover", "extended", "doubleLoop"}

HookSpec(kind, count, angle, start, center_mode, gap, offset, radius, handle, leg, leg_len) ==
    [kind |-> kind, loop_count |-> count, loop_angle_deg |-> angle,
     loop_start_angle |-> start, loop_plane_type |-> "axis-plane",
     center_mode |-> center_mode, axial_gap_factor |-> gap,
     radial_offset_factor |-> offset, hook_radius_factor |-> radius,
     handle_length_factor |-> handle, has_extended_leg |-> leg,
     extended_leg_length_factor |-> leg_len]

\* angles in degrees: -math.pi/2 is -90, math.pi/2 is 90
get_hook_spec(kind) ==
    CASE kind = "side" ->
            HookSpec("side", 1, I(270), I(90), "radial-offset",
                     Q(4, 5), I(0), Q(7, 10), Q(3, 10), FALSE, I(0))
      [] kind = "crossover" ->
            HookSpec("crossover", 1, I(180), I(-90), "on-axis",
                     Q(7, 5), I(0), I(1), Q(5, 2), FALSE, I(0))
      [] kind = "extended" ->
            HookSpec("extended", 1, I(200), I(-90), "radial-offset",
                     Q(3, 2), Q(4, 5), Q(17, 20), I(2), TRUE, Q(1, 2))
      [] kind = "doubleLoop" ->
            HookSpec("doubleLoop", 2, I(340), I(-90), "on-axis",
                     Q(9, 5), I(0), Q(17, 20), I(2), FALSE, I(0))
      [] OTHER ->
            HookSpec("machine", 1, I(160), I(-90), "on-axis",
                     Q(6, 5), I(0), Q(17, 20), I(2), FALSE, I(0))

\* end_point.sub(prev_point) with z = 0, normalized; the radial direction
\* turned a quarter when that is shorter than 1e-8
tangent_dir(end_point, prev_point) ==
    LET t == VSub(end_point, prev_point)
        flat == Vec(t.x, t.y, I(0))
        rd == radial_dir(end_point)
    IN  IF VTiny(flat) THEN Vec(RNeg(rd.y), rd.x, I(0)) ELSE VNormalize(flat)

get_helix_end_info(end_point, prev_point, is_start) ==
    [end_point |-> end_point, axis_dir |-> spring_axis_dir(is_start),
     radial_dir |-> radial_dir(end_point),
     tangent_dir |-> tangent_dir(end_point, prev_point)]

\* hook_builder.clamp_radius in exact arithmetic: x and y times
\* min_radius / r.  The factor is irrational; the clamped point keeps x and y
\* as its direction and carries its squared radius rr = min_radius^2.
clamp_radius_exact(point, min_radius) ==
    IF /\ RLt(I(0), min_radius)
       /\ SqSumLt(point.x, point.y, min_radius)
       /\ \/ ~TinyLe(RAbs(point.x), OneE8, 1)
          \/ ~TinyLe(RAbs(point.y), OneE8, 1)
    THEN [x |-> point.x, y |-> point.y, z |-> point.z,
          rr |-> RMul(min_radius, min_radius)]
    ELSE point

seg_a_steps == 10

seg_b_steps == 20

hb_segments == 24

\* the point of segment A at step i, before the clamp
SegAPoint(end_pos, seg_a_end, i) ==
    VAdd(VScale(end_pos, RSub(I(1), Q(i, seg_a_steps))),
         VScale(seg_a_end, Q(i, seg_a_steps)))

\* the whole function: <<centerline, control points of the transition>>
build_hook_centerline(spec, end_info, d, R, is_start) ==
    LET end_pos == end_info.end_point
        axis == end_info.axis_dir
        rd == end_info.radial_dir
        hook_gap == RMul(d, spec.axial_gap_factor)
        hook_radius == RAdd(RMul(R, spec.hook_radius_factor), RMul(d, Q(2, 5)))
        center_z == RAdd(end_pos.z, RMul(axis.z, hook_gap))
        offset == RMul(d, spec.radial_offset_factor)
        hook_center ==
            IF spec.center_mode = "on-axis" THEN Vec(I(0), I(0), center_z)
            ELSE Vec(RMul(rd.x, offset), RMul(rd.y, offset), center_z)
        u == VNormalize(axis)
        v == VNormalize(VCross(rd, axis))
        loop_pts ==
            [i \in 1..(hb_segments + 1) |->
                LoopPoint(hook_center, u, v, hook_radius,
                          RAdd(spec.loop_start_angle,
                               RMul(spec.loop_angle_deg, Q(i - 1, hb_segments))))]
        seg_a_end == VAdd(end_pos, VScale(end_info.tangent_dir, RMul(d, I(1))))
        seg_a_pts ==
            [i \in 1..(seg_a_steps + 1) |->
                clamp_radius_exact(SegAPoint(end_pos, seg_a_end, i - 1), R)]
        p0 == seg_a_end
        p3 == LoopXYZ(loop_pts[1])
        p1 == VAdd(VAdd(seg_a_end, VScale(rd, RMul(Q(1, 2), d))),
                   VScale(axis, RMul(Q(1, 2), d)))
        p2 == VSub(p3, VScale(axis, RMul(Q(1, 2), d)))
        seg_b_pts ==
            [i \in 1..seg_b_steps |->
                clamp_radius_exact(cubic_bezier(p0, p1, p2, p3, Q(i, seg_b_steps)), R)]
        all_pts == Reverse(loop_pts) \o Reverse(seg_b_pts) \o Reverse(seg_a_pts)
    IN  <<IF is_start THEN SubSeq(all_pts, 1, Len(all_pts) - 1)
          ELSE Tail(seg_a_pts) \o seg_b_pts \o loop_pts,
          <<p0, p1, p2, p3>>>>

(***************************************************************************)
(* One hook centerline built by either builder                             *)
(***************************************************************************)
HookBuilders == {"run_export", "hook_builder"}

\* wireDiameter and outerDiameter
HookSizes == {<<I(2), I(18)>>, <<I(2), I(22)>>, <<I(1), I(11)>>}

\* where the helix ends, as a direction from the axis times the mean radius,
\* and the step end_pos - prev_pos of an end hook, in units of d / 10; the
\* start hook has the step mirrored in y and z
HelixEnds ==
    {<<Vec(I(1), I(0), I(0)), Vec(I(0), I(4), I(3))>>,
     <<Vec(I(1), I(0), I(0)), Vec(I(0), I(1), I(0))>>,
     <<Vec(I(1), I(0), I(0)), Vec(I(3), I(4), I(0))>>,
     <<Vec(Q(3, 5), Q(4, 5), I(0)), Vec(I(-4), I(3), I(0))>>,
     <<Vec(I(1), I(0), I(0)), Vec(I(0), I(0), I(1))>>}

\* the body of the spring spans z = 0 .. BodyLength
BodyLength == I(20)

HookCall(builder, kind, size, is_start, helix_end) ==
    LET d == size[1]
        R == MeanRadius(size[1], size[2])
        end_pos == Vec(RMul(helix_end[1].x, R), RMul(helix_end[1].y, R),
                       IF is_start THEN I(0) ELSE BodyLength)
        step == VScale(Vec(helix_end[2].x,
                           IF is_start THEN RNeg(helix_end[2].y) ELSE helix_end[2].y,
                           IF is_start THEN RNeg(helix_end[2].z) ELSE helix_end[2].z),
                       RDiv(d, I(10)))
    IN  [builder |-> builder, hookType |-> kind, d |-> d, OD |-> size[2],
         is_start |-> is_start, end_pos |-> end_pos,
         prev_pos |-> VSub(end_pos, step), pc |-> "called",
         pts |-> <<>>, ctrl |-> <<>>, unified |-> <<>>]

HookIdle ==
    [builder |-> "none", hookType |-> "machine", d |-> I(0), OD |-> I(0),
     is_start |-> FALSE, end_pos |-> Vec(I(0), I(0), I(0)),
     prev_pos |-> Vec(I(0), I(0), I(0)), pc |-> "idle", pts |-> <<>>, ctrl |-> <<>>,
     unified |-> <<>>]

\* make_extension_spring's call of build_extension_hook_centerline
BuildExtensionHook ==
    /\ hook.pc = "called"
    /\ hook.builder = "run_export"
    /\ \E r \in {build_extension_hook_centerline(hook.end_pos, hook.prev_pos, hook.d,
                                                 hook.OD, hook.hookType, hook.is_start)} :
           hook' = [hook EXCEPT !.pc = "built", !.pts = r[1], !.ctrl = r[2]]
    /\ UNCHANGED NotHook

\* build_extension_hooks' call of get_hook_spec, get_helix_end_info and
\* build_hook_centerline
BuildHook ==
    /\ hook.pc = "called"
    /\ hook.builder = "hook_builder"
    /\ \E r \in {build_hook_centerline(
                     get_hook_spec(hook.hookType),
                     get_helix_end_info(hook.end_pos, hook.prev_pos, hook.is_start),
                     hook.d, MeanRadius(hook.d, hook.OD), hook.is_start)} :
           hook' = [hook EXCEPT !.pc = "built", !.pts = r[1], !.ctrl = r[2]]
    /\ UNCHANGED NotHook

\* make_extension_spring, step 3: start_hook_pts + helix_pts[1:-1] +
\* end_hook_pts.  end_pos and prev_pos are helix_pts[0] and helix_pts[1] for the
\* start hook, helix_pts[-1] and helix_pts[-2] for the end hook, so the body
\* point next to the hook is prev_pos; the rest of the body is left out.
JoinBody ==
    /\ hook.pc = "built"
    /\ hook.builder = "run_export"
    /\ hook' = [hook EXCEPT !.pc = "joined",
                            !.unified = IF hook.is_start
                                        THEN hook.pts \o <<hook.prev_pos>>
                                        ELSE <<hook.prev_pos>> \o hook.pts]
    /\ UNCHANGED NotHook

(***************************************************************************)
(* Claims on the hook centerlines                                          *)
(***************************************************************************)
HookR == MeanRadius(hook.d, hook.OD)

\* where the straight segment and the Bezier transition lie in hook.pts
StraightIndices ==
    IF hook.builder = "run_export" THEN {}
    ELSE IF hook.is_start THEN 46..55 ELSE 1..10

BezierIndices ==
    IF hook.builder = "run_export" THEN (IF hook.is_start THEN 37..60 ELSE 1..24)
    ELSE IF hook.is_start THEN 26..45 ELSE 11..30

\* the point of the straight segment or of the transition at index k of
\* hook.pts, as computed before any clamp
UnclampedPoint(k) ==
    LET c == hook.ctrl
    IN  IF hook.builder = "run_export"
        THEN LET i == IF hook.is_start THEN 61 - k ELSE k
             IN  IF i = transition_segments THEN c[4]
                 ELSE cubic_bezier(c[1], c[2], c[3], c[4], Q(i, transition_segments))
        ELSE IF k \in StraightIndices
        THEN SegAPoint(hook.end_pos, c[1], IF hook.is_start THEN 56 - k ELSE k)
        ELSE cubic_bezier(c[1], c[2], c[3], c[4],
                          Q(IF hook.is_start THEN 46 - k ELSE k - 10, seg_b_steps))

\* XY radius of p >= r, for r > 0
RadiusAtLeast(p, r) ==
    IF "rr" \in DOMAIN p THEN RLe(RMul(r, r), p.rr) ELSE ~SqSumLt(p.x, p.y, r)

\* C9: in every hook centerline, every point of the straight segment and of
\* the Bezier transition has an XY radius of at least the mean radius of the
\* body, and the z of the point before the clamp.
C9_TransitionOutsideBody ==
    hook.pc = "built" =>
        \A k \in StraightIndices \cup BezierIndices :
            /\ RadiusAtLeast(hook.pts[k], HookR)
            /\ hook.pts[k].z = UnclampedPoint(k).z

\* a and b parallel with positive dot product
ParallelPos(a, b) ==
    /\ VCross(a, b) = Vec(I(0), I(0), I(0))
    /\ RLt(I(0), VDot(a, b))

\* a point of the loop of the built hook
LoopRecord == IF hook.is_start THEN hook.pts[1] ELSE hook.pts[Len(hook.pts)]

LoopStartAngle ==
    IF hook.builder = "run_export" THEN loop_start_angle
    ELSE get_hook_spec(hook.hookType).loop_start_angle

\* d/d(theta) of center + u * r * cos(theta) + v * r * sin(theta) at the start
\* angle, up to the factor r
LoopStartTangent ==
    VAdd(VScale(LoopRecord.u, RNeg(SinDeg(LoopStartAngle))),
         VScale(LoopRecord.v, CosDeg(LoopStartAngle)))

\* C10: for every hook, the direction from the first to the second control
\* point of the Bezier transition is parallel, with positive dot product, to
\* the tangent of the helix at its end point, and the direction from the third
\* to the fourth control point is parallel, with positive dot product, to the
\* tangent of the loop arc at the loop start angle.
C10_TransitionTangents ==
    hook.pc = "built" =>
        /\ ParallelPos(VSub(hook.ctrl[2], hook.ctrl[1]),
                       VSub(hook.end_pos, hook.prev_pos))
        /\ ParallelPos(VSub(hook.ctrl[4], hook.ctrl[3]), LoopStartTangent)

\* the centerline the builder of the hook returns for hook kind k, all other
\* arguments as in the call
CenterlineOfKind(k) ==
    IF hook.builder = "run_export"
    THEN build_extension_hook_centerline(hook.end_pos, hook.prev_pos, hook.d, hook.OD,
                                         k, hook.is_start)[1]
    ELSE build_hook_centerline(
             get_hook_spec(k),
             get_helix_end_info(hook.end_pos, hook.prev_pos, hook.is_start),
             hook.d, MeanRadius(hook.d, hook.OD), hook.is_start)[1]

\* the table values the claims name
TableValues(k) ==
    LET spec == get_hook_spec(k)
    IN  <<spec.loop_angle_deg, spec.loop_start_angle, spec.axial_gap_factor,
          spec.hook_radius_factor, spec.handle_length_factor>>

\* the loop of the built hook sweeps from the start angle of the table over the
\* loop angle of the table
LoopAnglesFromTable ==
    LET spec == get_hook_spec(hook.hookType)
    IN  /\ LoopRecord.deg = RAdd(spec.loop_start_angle, spec.loop_angle_deg)
        /\ hook.ctrl[4] = LoopXYZ([LoopRecord EXCEPT !.deg = spec.loop_start_angle])

\* the loop center lies axial_gap_factor * d beyond the end of the helix
LoopGapFromTable ==
    LET gap == RMul(hook.d, get_hook_spec(hook.hookType).axial_gap_factor)
    IN  LoopRecord.center.z
            = RAdd(hook.end_pos.z, IF hook.is_start THEN RNeg(gap) ELSE gap)

\* the hook radius is computed with the hook_radius_factor of the table
LoopRadiusFromTable ==
    LoopRecord.r
        = RAdd(RMul(HookR, get_hook_spec(hook.hookType).hook_radius_factor),
               IF hook.builder = "hook_builder" THEN RMul(hook.d, Q(2, 5)) ELSE I(0))

\* the first handle of the Bezier transition has the length
\* handle_length_factor * d
HandleFromTable ==
    LET h == VSub(hook.ctrl[2], hook.ctrl[1])
        len == RMul(hook.d, get_hook_spec(hook.hookType).handle_length_factor)
    IN  VDot(h, h) = RMul(len, len)

\* C11: the hook centerline is computed from the HookSpec entry of the
\* requested kind: loop angle, loop start angle, axial gap, hook radius factor
\* and handle length are those of the table, and a kind with other table values
\* gives another centerline.
C11_HookKindFromTable ==
    hook.pc = "built" =>
        /\ LoopAnglesFromTable
        /\ LoopGapFromTable
        /\ LoopRadiusFromTable
        /\ HandleFromTable
        /\ \A k \in HookKinds :
               TableValues(k) # TableValues(hook.hookType)
                   => CenterlineOfKind(k) # hook.pts

\* the loop arc points of the built centerline
LoopIndices == {i \in 1..Len(hook.pts) : "deg" \in DOMAIN hook.pts[i]}

\* center + u * (r * cos) + v * (r * sin) lies at distance r from the center
\* when u and v are orthonormal
AtDistance(lp, r) ==
    /\ lp.r = r
    /\ VDot(lp.u, lp.u) = I(1)
    /\ VDot(lp.v, lp.v) = I(1)
    /\ VDot(lp.u, lp.v) = I(0)

\* C12: the loop of a machine hook sweeps 160 degrees, its radius is
\* 0.85 * (outerDiameter - wireDiameter) / 2, which is 6.8 for wireDiameter 2
\* and outerDiameter 18, and every loop point lies at that distance from the
\* loop center.
C12_MachineLoopRadius ==
    (hook.pc = "built" /\ hook.hookType = "machine") =>
        /\ LoopRecord.deg = RAdd(I(-90), I(160))
        /\ \A i \in LoopIndices :
               /\ AtDistance(hook.pts[i], RMul(Q(17, 20), HookR))
               /\ hook.pts[i].center = LoopRecord.center
               /\ (hook.d = I(2) /\ hook.OD = I(18)) => hook.pts[i].r = Q(34, 5)

\* the point a straight leg of length len ends on, when it leaves the loop
\* arc at its point lp along the tangent of the arc
LegPoint(lp, len) == [from |-> lp, leg |-> len]

\* the end of the built centerline away from the body, and the point next to it
HookTip == IF hook.is_start THEN hook.pts[1] ELSE hook.pts[Len(hook.pts)]

BeforeHookTip == IF hook.is_start THEN hook.pts[2] ELSE hook.pts[Len(hook.pts) - 1]

\* C13: the centerline of an extended hook ends with a straight leg of length
\* extended_leg_length_factor * d beyond the last point of the loop arc; the
\* centerline of any other kind ends on the loop arc.
C13_ExtendedLeg ==
    hook.pc = "built" =>
        IF hook.hookType = "extended"
        THEN /\ "deg" \in DOMAIN BeforeHookTip
             /\ HookTip = LegPoint(BeforeHookTip,
                                   RMul(get_hook_spec("extended").extended_leg_length_factor,
                                        hook.d))
        ELSE "deg" \in DOMAIN HookTip

IsQuarter(deg) == deg[2] = 1 /\ deg[1] % 90 = 0

\* the same angle up to whole turns
SameAngle(a, b) ==
    LET diff == RSub(a, b)
    IN  diff[2] = 1 /\ diff[1] % 360 = 0

\* p and q, each with coordinates x, y, z or clamped to the squared radius rr,
\* are one point
SameXYZ(p, q) ==
    /\ p.z = q.z
    /\ IF "rr" \notin DOMAIN p /\ "rr" \notin DOMAIN q
       THEN p.x = q.x /\ p.y = q.y
       ELSE /\ RSub(RMul(p.x, q.y), RMul(p.y, q.x)) = I(0)
            /\ RLt(I(0), RAdd(RMul(p.x, q.x), RMul(p.y, q.y)))
            /\ (IF "rr" \in DOMAIN p THEN p.rr ELSE RAdd(RMul(p.x, p.x), RMul(p.y, p.y)))
                   = (IF "rr" \in DOMAIN q THEN q.rr ELSE RAdd(RMul(q.x, q.x), RMul(q.y, q.y)))

\* a loop point with rational coordinates: off the quarter turns sin or cos of
\* a rational number of degrees is irrational, and with it a coordinate
RationalLoopPoint(lp) == lp.r = I(0) \/ IsQuarter(lp.deg)

AsXYZ(lp) == IF lp.r = I(0) THEN lp.center ELSE LoopXYZ(lp)

\* two points of a centerline at distance 0
Coincide(p, q) ==
    IF "deg" \in DOMAIN p /\ "deg" \in DOMAIN q
    THEN /\ p.center = q.center /\ p.u = q.u /\ p.v = q.v /\ p.r = q.r
         /\ (p.r = I(0) \/ SameAngle(p.deg, q.deg))
    ELSE IF "deg" \in DOMAIN p
    THEN RationalLoopPoint(p) /\ SameXYZ(AsXYZ(p), q)
    ELSE IF "deg" \in DOMAIN q
    THEN RationalLoopPoint(q) /\ SameXYZ(p, AsXYZ(q))
    ELSE SameXYZ(p, q)

NoCoincidentNeighbours(pts) ==
    \A i \in 1..(Len(pts) - 1) : ~Coincide(pts[i], pts[i + 1])

\* C14: no two consecutive points coincide, in the list either hook builder
\* returns and in the unified centerline where hook and body join.
C14_NoCoincidentPoints ==
    /\ hook.pc = "built" => NoCoincidentNeighbours(hook.pts)
    /\ hook.pc = "joined" => NoCoincidentNeighbours(hook.unified)

(***************************************************************************)
(* run_export.py: parameter normalizers.  A dict is a function from its    *)
(* keys to values; a value is absent (the key is not in the dict), null    *)
(* (None), a number or a string.                                           *)
(***************************************************************************)
Absent == [tag |-> "absent", v |-> I(0), s |-> ""]

Null == [tag |-> "null", v |-> I(0), s |-> ""]

Num(q) == [tag |-> "num", v |-> q, s |-> ""]

Str(s) == [tag |-> "str", v |-> I(0), s |-> s]

\* the outcome of an expression that raised TypeError (None in arithmetic)
TypeError == [tag |-> "TypeError", v |-> I(0), s |-> ""]

\* geom.get(key)
Get(geom, key) == IF geom[key].tag = "absent" THEN Null ELSE geom[key]

\* geom.get(key, default)
GetDefault(geom, key, default) ==
    IF geom[key].tag = "absent" THEN default ELSE geom[key]

\* x is None or x <= 0
NoneOrNotPositive(x) == x.tag = "null" \/ (x.tag = "num" /\ RLe(x.v, I(0)))

\* x is not None and x > 0
Positive(x) == x.tag = "num" /\ RLt(I(0), x.v)

\* bool(x): None and 0 are false
Truthy(x) == x.tag = "str" \/ (x.tag = "num" /\ x.v # I(0))

\* a + b, a - b, a * b, max(a, b) of Python on numbers and None
PyAdd(a, b) ==
    IF a.tag = "num" /\ b.tag = "num" THEN Num(RAdd(a.v, b.v)) ELSE TypeError

PySub(a, b) ==
    IF a.tag = "num" /\ b.tag = "num" THEN Num(RSub(a.v, b.v)) ELSE TypeError

PyMul(a, b) ==
    IF a.tag = "num" /\ b.tag = "num" THEN Num(RMul(a.v, b.v)) ELSE TypeError

PyMaxOf(a, b) ==
    IF a.tag = "num" /\ b.tag = "num" THEN Num(RMax(a.v, b.v)) ELSE TypeError

ExtensionKeys ==
    {"wireDiameter", "activeCoils", "totalCoils", "outerDiameter",
     "meanDiameter", "bodyLength", "freeLengthInsideHooks", "freeLength"}

\* step 1 of normalize_extension_params: activeCoils, else totalCoils, else 10
ExtensionCoils_TotalFirst(geom) ==
    LET Na == Get(geom, "activeCoils")
        Nt == Get(geom, "totalCoils")
    IN  IF Positive(Nt) THEN Nt
        ELSE IF NoneOrNotPositive(Na) THEN Num(I(10)) ELSE Na

ExtensionCoils(geom) ==
    LET Na == Get(geom, "activeCoils")
        Nt == Get(geom, "totalCoils")
    IN  IF NoneOrNotPositive(Na)
        THEN IF Positive(Nt) THEN Nt ELSE Num(I(10))
        ELSE Na

\* step 2: outerDiameter, else meanDiameter + d, else 18.0
ExtensionOuterDiameter(geom, d) ==
    LET OD == Get(geom, "outerDiameter")
        mean_d == Get(geom, "meanDiameter")
    IN  IF NoneOrNotPositive(OD)
        THEN IF Positive(mean_d) THEN PyAdd(mean_d, d) ELSE Num(I(18))
        ELSE OD

\* step 3: bodyLength, else from the free length, else close-wound Na * d
ExtensionBodyLength(geom, d, Na) ==
    LET body_len == Get(geom, "bodyLength")
        inside == Get(geom, "freeLengthInsideHooks")
        free_len == IF Truthy(inside) THEN inside ELSE Get(geom, "freeLength")
        hook_allowance == PyMul(Num(I(4)), d)
    IN  IF NoneOrNotPositive(body_len)
        THEN IF Positive(free_len)
             THEN IF hook_allowance.tag = "TypeError" THEN TypeError
                  ELSE PyMaxOf(PySub(free_len, hook_allowance), PyMul(Na, d))
             ELSE PyMul(Na, d)
        ELSE body_len

\* {**geom, key: value, ...}: a new dict
Merged(geom, updates) ==
    [k \in DOMAIN geom \cup DOMAIN updates |->
        IF k \in DOMAIN updates THEN updates[k] ELSE geom[k]]

\* the returned dict, or TypeError when an expression raised
normalize_extension_params(geom) ==
    LET d == GetDefault(geom, "wireDiameter", Num(I(2)))
        Na == ExtensionCoils(geom)
        OD == ExtensionOuterDiameter(geom, d)
        body_len == ExtensionBodyLength(geom, d, Na)
    IN  IF OD.tag = "TypeError" \/ body_len.tag = "TypeError" THEN TypeError
        ELSE Merged(geom, [wireDiameter |-> d, activeCoils |-> Na,
                           bodyLength |-> body_len, outerDiameter |-> OD])

TorsionKeys ==
    {"wireDiameter", "activeCoils", "meanDiameter", "outerDiameter",
     "legLength", "legLength1", "legLength2", "windingDirection",
     "freeAngle", "workingAngle"}

\* meanDiameter, else outerDiameter - d, else 12.0
TorsionMeanDiameter(geom, d) ==
    LET Dm == Get(geom, "meanDiameter")
        OD == Get(geom, "outerDiameter")
    IN  IF NoneOrNotPositive(Dm)
        THEN IF Positive(OD) THEN PySub(OD, d) ELSE Num(I(12))
        ELSE Dm

normalize_torsion_params(geom) ==
    LET d == GetDefault(geom, "wireDiameter", Num(Q(3, 2)))
        Na0 == Get(geom, "activeCoils")
        Na == IF NoneOrNotPositive(Na0) THEN Num(I(6)) ELSE Na0
        Dm == TorsionMeanDiameter(geom, d)
        OD0 == Get(geom, "outerDiameter")
        OD == IF Dm.tag = "TypeError" THEN TypeError
              ELSE IF NoneOrNotPositive(OD0) THEN PyAdd(Dm, d) ELSE OD0
        leg == GetDefault(geom, "legLength", Num(I(25)))
        L1 == GetDefault(geom, "legLength1", leg)
        L2 == GetDefault(geom, "legLength2", leg)
        winding0 == GetDefault(geom, "windingDirection", Str("right"))
        winding == IF winding0 \in {Str("right"), Str("left")}
                   THEN winding0 ELSE Str("right")
        free_angle == GetDefault(geom, "freeAngle", Num(I(90)))
        working_angle == GetDefault(geom, "workingAngle", Num(I(0)))
    IN  IF OD.tag = "TypeError" THEN TypeError
        ELSE Merged(geom, [wireDiameter |-> d, activeCoils |-> Na,
                           meanDiameter |-> Dm, outerDiameter |-> OD,
                           legLength1 |-> L1, legLength2 |-> L2,
                           windingDirection |-> winding,
                           freeAngle |-> free_angle,
                           workingAngle |-> working_angle])

Normalizers == {"normalize_extension_params", "normalize_torsion_params"}

\* what one call leaves behind: the caller's dict and the returned value.
\* Neither function assigns to geom or to one of its keys.
NormalizeCall_InPlace(fn, geom) ==
    LET r == IF fn = "normalize_extension_params"
             THEN normalize_extension_params(geom)
             ELSE normalize_torsion_params(geom)
    IN  [geom |-> IF r = TypeError THEN geom ELSE r, result |-> r]

NormalizeCall(fn, geom) ==
    [geom |-> geom,
     result |-> IF fn = "normalize_extension_params"
                THEN normalize_extension_params(geom)
                ELSE normalize_torsion_params(geom)]

\* raw records: every field the normalizers read may be absent, null, zero,
\* negative or positive
RawExtension ==
    [wireDiameter : {Absent, Null, Num(I(0)), Num(I(-1)), Num(I(2))},
     activeCoils : {Absent, Null, Num(I(0)), Num(I(-3)), Num(I(8))},
     totalCoils : {Absent, Num(I(12))},
     outerDiameter : {Absent, Null, Num(I(0)), Num(I(-5)), Num(I(20))},
     meanDiameter : {Absent, Num(I(15))},
     bodyLength : {Absent, Null, Num(I(0)), Num(I(-2)), Num(I(30))},
     freeLengthInsideHooks : {Absent, Num(I(0)), Num(I(-4)), Num(I(50))},
     freeLength : {Absent, Num(I(20))}]

RawTorsion ==
    [wireDiameter : {Absent, Null, Num(I(2))},
     activeCoils : {Num(I(0)), Num(I(5))},
     meanDiameter : {Absent, Num(I(-1)), Num(I(10))},
     outerDiameter : {Absent, Num(I(0)), Num(I(14))},
     legLength : {Absent, Num(I(30))},
     legLength1 : {Absent, Num(I(20))},
     legLength2 : {Absent, Null},
     windingDirection : {Absent, Str("left"), Str("cw")},
     freeAngle : {Absent, Num(I(120))},
     workingAngle : {Absent}]

NormCall(fn, geom) ==
    [fn |-> fn, geom |-> geom, before |-> geom, result |-> Null,
     pc |-> "called"]

NormIdle == NormCall("", <<>>) @@ [pc |-> "idle"]

Normalize(fn) ==
    /\ norm.pc = "called"
    /\ norm.fn = fn
    /\ \E r \in {NormalizeCall(fn, norm.geom)} :
          norm' = [norm EXCEPT !.geom = r.geom,
                               !.result = r.result,
                               !.pc = IF r.result = TypeError
                                      THEN "raised" ELSE "returned"]
    /\ UNCHANGED NotNorm

NormalizeExtension == Normalize("normalize_extension_params")

NormalizeTorsion == Normalize("normalize_torsion_params")

(***************************************************************************)
(* Claims on the parameter normalizers                                     *)
(***************************************************************************)
ExtensionReturned ==
    norm.fn = "normalize_extension_params" /\ norm.pc = "returned"

\* the raw record gives a usable (positive) number under key
GivenPositive(key) == Positive(norm.before[key])

\* the raw record gives no free length at all
NoFreeLength ==
    /\ norm.before["freeLengthInsideHooks"].tag \in {"absent", "null"}
    /\ norm.before["freeLength"].tag \in {"absent", "null"}

CloseWound ==
    Num(RMul(norm.result["activeCoils"].v, norm.result["wireDiameter"].v))

\* bodyLength worked out from a free length the raw record gives
FromFreeLength ==
    {Num(RSub(norm.before[k].v, RMul(I(4), norm.result["wireDiameter"].v))) :
        k \in {"freeLengthInsideHooks", "freeLength"}}

\* C15: normalize_extension_params resolves each field by priority: the
\* explicit positive field, else the convertible alternate (meanDiameter +
\* wireDiameter, totalCoils), else the default (18.0, 10); bodyLength is the
\* explicit positive bodyLength, else computed from the other fields, which
\* is activeCoils * wireDiameter when no free length is given.
C15_FirstPresentWins ==
    ExtensionReturned =>
        /\ norm.result["outerDiameter"] =
              IF GivenPositive("outerDiameter")
              THEN norm.before["outerDiameter"]
              ELSE IF GivenPositive("meanDiameter")
                   THEN Num(RAdd(norm.before["meanDiameter"].v,
                                 norm.result["wireDiameter"].v))
                   ELSE Num(I(18))
        /\ norm.result["activeCoils"] =
              IF GivenPositive("activeCoils") THEN norm.before["activeCoils"]
              ELSE IF GivenPositive("totalCoils")
                   THEN norm.before["totalCoils"]
                   ELSE Num(I(10))
        /\ IF GivenPositive("bodyLength")
           THEN norm.result["bodyLength"] = norm.before["bodyLength"]
           ELSE IF NoFreeLength
                THEN norm.result["bodyLength"] = CloseWound
                ELSE norm.result["bodyLength"] \in FromFreeLength \cup {CloseWound}

\* every fallback of the priority order taken in one call: the outer diameter
\* from the mean diameter, the coils from totalCoils, a close-wound body
C15_Witness ==
    /\ ExtensionReturned
    /\ ~GivenPositive("outerDiameter") /\ GivenPositive("meanDiameter")
    /\ ~GivenPositive("activeCoils") /\ GivenPositive("totalCoils")
    /\ ~GivenPositive("bodyLength") /\ NoFreeLength
    /\ norm.result["outerDiameter"] = Num(I(17))
    /\ norm.result["activeCoils"] = Num(I(12))
    /\ norm.result["bodyLength"] = Num(I(24))

\* C16: neither normalizer mutates its input: after the call, returned or
\* raised, the caller's dict has the keys and values it had before; the
\* normalized values are in the returned dict.
C16_InputNotMutated ==
    norm.pc \in {"returned", "raised"} => norm.geom = norm.before

\* a call that normalized something: the returned dict differs from the input
C16_Witness ==
    /\ norm.pc = "returned"
    /\ norm.fn = "normalize_torsion_params"
    /\ norm.result # norm.before
    /\ norm.before["meanDiameter"] = Absent
    /\ norm.result["meanDiameter"] = Num(I(12))

\* C17: for every raw extension record normalize_extension_params returns
\* without raising, and wireDiameter, activeCoils, outerDiameter and
\* bodyLength of the result are present, non-null and strictly positive.
C17_CompleteAndValid ==
    norm.fn = "normalize_extension_params" =>
        /\ norm.pc # "raised"
        /\ norm.pc = "returned" =>
              \A k \in {"wireDiameter", "activeCoils", "outerDiameter",
                        "bodyLength"} : Positive(norm.result[k])

(***************************************************************************)
(* fea-calculix-worker: wave spring node generators.  Both sample          *)
(* sin(n_w * theta) at 24 points per wave (24 shell segments, 12 quadratic *)
(* beam elements of 2 node steps), that is at multiples of 15 degrees.     *)
(* math.sin returns the sine rounded to a double; SinQuarter holds it      *)
(* rounded to 4 decimals.  Only the z of the nodes is modelled.            *)
(***************************************************************************)
SinQuarter ==
    <<I(0), Q(2588, 10000), Q(1, 2), Q(7071, 10000), Q(8660, 10000),
      Q(9659, 10000), I(1)>>

\* sin(k * 15 degrees)
RECURSIVE Sin15(_)
Sin15(k) ==
    LET m == k % 24
    IN  IF m <= 6 THEN SinQuarter[m + 1]
        ELSE IF m <= 12 THEN SinQuarter[12 - m + 1]
        ELSE RNeg(Sin15(m - 12))

\* sin(2 pi q) for a turn count q that is a multiple of 1/24
SinTurns(q) == Sin15((q[1] * 24) \div q[2])

\* int(q) for q >= 0
PyInt(q) == q[1] \div q[2]

shell_segs_per_wave == 24

beam_segs_per_wave == 12

\* total_circum_segs of generate_wave_shell_inp
total_circum_segs(g) == PyInt(RMul(RMul(g.n_t, g.n_w), I(shell_segs_per_wave)))

\* z_center of row i: (h0 / 2) * sin(n_w * theta), theta = (i / total) * 2 pi n_t
shell_z_center(g, i) ==
    LET turns == RMul(Q(i, total_circum_segs(g)), g.n_t)
    IN  RMul(RDiv(g.h0, I(2)), SinTurns(RMul(g.n_w, turns)))

\* num_nodes of generate_wave_beam_inp: 2 * total_elements + 1
beam_num_nodes(g) ==
    LET nodes_per_turn == PyInt(RMul(g.n_w, I(beam_segs_per_wave)))
        total_elements == PyInt(RMul(g.n_t, I(nodes_per_turn)))
    IN  2 * total_elements + 1

\* amp = (h0 - t) / 2, floored at 0
beam_amp(g) ==
    LET amp == RDiv(RSub(g.h0, g.t), I(2))
    IN  IF RLt(amp, I(0)) THEN I(0) ELSE amp

\* z of node i: z_base + z_wave
beam_z(g, i) ==
    LET t_param == Q(i, beam_num_nodes(g) - 1)
        turns == RMul(t_param, g.n_t)
        pitch_per_turn == RMul(g.t, Q(105, 100))
        z_base == RMul(turns, pitch_per_turn)
        z_wave == RMul(beam_amp(g), SinTurns(RMul(g.n_w, turns)))
    IN  RAdd(z_base, z_wave)

WaveGenerators == {"generate_wave_shell_inp", "generate_wave_beam_inp"}

\* WaveSpringGeometry; n_t * n_w * 12 is whole in every one
WaveGeometries ==
    [id : {I(20)}, od : {I(30)}, b : {I(5)}, t : {Q(1, 2), I(1)},
     n_w : {I(3), Q(7, 2)}, n_t : {I(1), I(2)}, h0 : {I(0), Q(1, 2), I(4)}]

WaveCall(gen, g) ==
    [gen |-> gen, geometry |-> g, pc |-> "nodes", i |-> 0,
     count |-> IF gen = "generate_wave_shell_inp"
               THEN total_circum_segs(g) + 1 ELSE beam_num_nodes(g),
     prev |-> I(0), last |-> I(0)]

WaveIdle ==
    [gen |-> "", pc |-> "idle", i |-> 0, count |-> 0, prev |-> I(0),
     last |-> I(0),
     geometry |-> [id |-> I(0), od |-> I(0), b |-> I(0), t |-> I(0),
                   n_w |-> I(0), n_t |-> I(0), h0 |-> I(0)]]

\* one pass of the outer loop of generate_wave_shell_inp: the row of nodes
\* at circumferential index i, all at z_center
WaveShellRow ==
    /\ wave.pc = "nodes"
    /\ wave.gen = "generate_wave_shell_inp"
    /\ wave.i < wave.count
    /\ wave' = [wave EXCEPT !.prev = wave.last,
                            !.last = shell_z_center(wave.geometry, wave.i),
                            !.i = @ + 1]
    /\ UNCHANGED NotWave

\* one pass of the node loop of generate_wave_beam_inp
WaveBeamNode ==
    /\ wave.pc = "nodes"
    /\ wave.gen = "generate_wave_beam_inp"
    /\ wave.i < wave.count
    /\ wave' = [wave EXCEPT !.prev = wave.last,
                            !.last = beam_z(wave.geometry, wave.i),
                            !.i = @ + 1]
    /\ UNCHANGED NotWave

\* the elements are built from the node ids and the deck is rendered
WaveRender ==
    /\ wave.pc = "nodes"
    /\ wave.i = wave.count
    /\ wave' = [wave EXCEPT !.pc = "rendered"]
    /\ UNCHANGED NotWave

(***************************************************************************)
(* Claims on the wave generators                                           *)
(***************************************************************************)
\* C19: along the sample order of both wave generators z is non-decreasing:
\* z[i] <= z[i+1] for every pair of consecutive nodes of the centerline.
C19_WaveZNonDecreasing ==
    (wave.pc = "nodes" /\ wave.i >= 2) => RLe(wave.prev, wave.last)

(***************************************************************************)
(* run_export.py: arc backbone frames.  App.Vector.multiply scales the     *)
(* vector it is called on and returns that same object (as normalize does, *)
(* which the hook builders call for its effect alone); cross, + and vec    *)
(* make a new vector.  A call is therefore modelled by what it returns and *)
(* by what it leaves in the vectors passed to it.                          *)
(*                                                                         *)
(* A vector is kept as (x, y, z) / sqrt(ss) with rational x, y, z, ss, so  *)
(* that dividing by an irrational length is exact.  Angles are taken where *)
(* cosine and sine are rational: the quarter turns and the angles of the   *)
(* 3-4-5 triangle.                                                         *)
(***************************************************************************)
vec(x, y, z) == [x |-> x, y |-> y, z |-> z, ss |-> I(1)]

SumSq(v) == RAdd(RAdd(RMul(v.x, v.x), RMul(v.y, v.y)), RMul(v.z, v.z))

IsZeroVec(v) == SumSq(v) = I(0)

\* v.Length squared
Length2(v) == RDiv(SumSq(v), v.ss)

\* l > 1e-12, on l squared
AboveOneE12(l2) == ~(l2[1] <= ((l2[2] \div OneE8) \div OneE8) \div OneE8)

IsSquare(n) == LET r == ISqrtBetween(n, 0, IF n < 46340 THEN n ELSE 46340)
               IN  r * r = n

\* v.multiply(k): v scaled, in place
Multiply(v, k) == [v EXCEPT !.x = RMul(@, k), !.y = RMul(@, k), !.z = RMul(@, k)]

\* v.multiply(1.0 / l) with l = v.Length
DivideByLength(v) ==
    LET q == SumSq(v)
    IN  IF IsSquare(q[1]) /\ IsSquare(q[2])
        THEN [Multiply(v, RDiv(I(1), RSqrt(q))) EXCEPT !.ss = I(1)]
        ELSE [v EXCEPT !.ss = q]

\* a.cross(v), a new vector
Cross(a, v) ==
    [x |-> RSub(RMul(a.y, v.z), RMul(a.z, v.y)),
     y |-> RSub(RMul(a.z, v.x), RMul(a.x, v.z)),
     z |-> RSub(RMul(a.x, v.y), RMul(a.y, v.x)),
     ss |-> RMul(a.ss, v.ss)]

\* a + b, a new vector; the two are on the same root or one of them is zero
Plus(a, b) ==
    CASE IsZeroVec(b) -> a
      [] IsZeroVec(a) -> b
      [] a.ss = b.ss ->
           [x |-> RAdd(a.x, b.x), y |-> RAdd(a.y, b.y), z |-> RAdd(a.z, b.z),
            ss |-> a.ss]

\* unit(v): res is the returned vector, v the argument after the call
unit(v) ==
    IF AboveOneE12(Length2(v))
    THEN [res |-> DivideByLength(v), v |-> DivideByLength(v)]
    ELSE [res |-> vec(I(0), I(0), I(0)), v |-> v]

\* an angle in degrees with its cosine and sine
Angle(deg, c, s) == [deg |-> deg, c |-> c, s |-> s]

\* rot_axis_angle(v, axis, deg): res is the returned vector, v and axis the
\* arguments after the call.  a is axis itself when unit scaled it in place,
\* and a rational vector in every call made; v.multiply(c) is evaluated first
\* and leaves c * v in v for the cross and the dot product.
rot_axis_angle(v, axis, ang) ==
    LET a == unit(axis).res
        aliased == AboveOneE12(Length2(axis))
        v1 == Multiply(v, ang.c)
        X == Multiply(Cross(a, v1), ang.s)
        dot == RMul(RAdd(RAdd(RMul(a.x, v1.x), RMul(a.y, v1.y)), RMul(a.z, v1.z)),
                    RSub(I(1), ang.c))
        a2 == Multiply(a, dot)
    IN  [res |-> Plus(Plus(v1, X), [a2 EXCEPT !.ss = v1.ss]),
         v |-> v1,
         axis |-> IF aliased THEN a2 ELSE axis]

\* abs(deg) > 1e-9
AngleGiven(ang) == ~TinyLe(RAbs(ang.deg), OneE9, 1)

\* th = a0 + (a1 - a0) * u in degrees, u = i / (samples - 1)
SampleDeg(P, i) ==
    RAdd(RDiv(RNeg(P.alphaDeg), I(2)), RMul(P.alphaDeg, Q(i, P.samples - 1)))

\* the angles of a tilt or a lean: none, the 3-4-5 angles, the quarter turns
BowAngles ==
    {Angle(I(0), I(1), I(0)), Angle(Q(5313, 100), Q(3, 5), Q(4, 5)),
     Angle(I(90), I(0), I(1)), Angle(Q(12687, 100), Q(-3, 5), Q(4, 5)),
     Angle(Q(-3687, 100), Q(4, 5), Q(-3, 5))}

\* alphaDeg and samples with every sample on a quarter turn
BackboneArcs == {<<I(180), 3>>, <<I(360), 3>>, <<I(360), 5>>}

BackboneParams ==
    {[r |-> r, alphaDeg |-> arc_[1], samples |-> arc_[2], profile |-> profile,
      bowLeanDeg |-> lean, bowPlaneTiltDeg |-> tilt] :
        r \in {I(10), Q(5, 2)}, arc_ \in BackboneArcs, profile \in {"ARC", "BOW"},
        lean \in BowAngles, tilt \in BowAngles}

BackboneCall(P) ==
    [params |-> P, pc |-> "loop", i |-> 0, frames |-> <<>>,
     axisZ |-> vec(I(0), I(0), I(1))]

BackboneIdle ==
    [params |-> [r |-> I(0), alphaDeg |-> I(0), samples |-> 0, profile |-> "",
                 bowLeanDeg |-> Angle(I(0), I(1), I(0)),
                 bowPlaneTiltDeg |-> Angle(I(0), I(1), I(0))],
     pc |-> "idle", i |-> 0, frames |-> <<>>, axisZ |-> vec(I(0), I(0), I(0))]

\* a rotation not made: the vector and the axis as they are
NotRotated(v, axis) == [res |-> v, v |-> v, axis |-> axis]

\* one pass of the loop of build_arc_backbone_frames, statement by statement:
\* the base frame on the arc; for BOW the tilt of n about t (which leaves t as
\* rot_axis_angle leaves its axis) and b = unit(t.cross(n)); the lean of p, t,
\* n and b in turn about the one axisZ object; frames.append((p, t, n, b))
BackboneSample ==
    /\ bb.pc = "loop"
    /\ bb.i < bb.params.samples
    /\ LET P == bb.params
           th == SampleDeg(P, bb.i)
           tilted == P.profile = "BOW" /\ AngleGiven(P.bowPlaneTiltDeg)
           leaned == P.profile = "BOW" /\ AngleGiven(P.bowLeanDeg)
       IN  \E p0 \in {vec(RMul(P.r, CosDeg(th)), RMul(P.r, SinDeg(th)), I(0))},
              t0 \in {unit(vec(RNeg(SinDeg(th)), CosDeg(th), I(0))).res},
              n0 \in {unit(vec(RNeg(CosDeg(th)), RNeg(SinDeg(th)), I(0))).res} :
           \E b0 \in {unit(Cross(t0, n0)).res} :
           \E rn \in {IF tilted THEN rot_axis_angle(n0, t0, P.bowPlaneTiltDeg)
                       ELSE NotRotated(n0, t0)} :
           \E n1 \in {IF tilted THEN unit(rn.res).res ELSE n0} :
           \E b1 \in {IF tilted THEN unit(Cross(rn.axis, n1)).res ELSE b0} :
           \E rp \in {IF leaned THEN rot_axis_angle(p0, bb.axisZ, P.bowLeanDeg)
                       ELSE NotRotated(p0, bb.axisZ)} :
           \E rt \in {IF leaned THEN rot_axis_angle(rn.axis, rp.axis, P.bowLeanDeg)
                       ELSE NotRotated(rn.axis, rp.axis)} :
           \E rn2 \in {IF leaned THEN rot_axis_angle(n1, rt.axis, P.bowLeanDeg)
                        ELSE NotRotated(n1, rt.axis)} :
           \E rb \in {IF leaned THEN rot_axis_angle(b1, rn2.axis, P.bowLeanDeg)
                       ELSE NotRotated(b1, rn2.axis)} :
           \E t2 \in {IF leaned THEN unit(rt.res).res ELSE rt.res},
              n2 \in {IF leaned THEN unit(rn2.res).res ELSE rn2.res},
              b2 \in {IF leaned THEN unit(rb.res).res ELSE rb.res} :
              bb' = [bb EXCEPT !.frames = Append(@, [p |-> rp.res, t |-> t2,
                                                     n |-> n2, b |-> b2]),
                               !.axisZ = rb.axis,
                               !.i = @ + 1]
    /\ UNCHANGED NotBackbone

\* return frames
BackboneReturn ==
    /\ bb.pc = "loop"
    /\ bb.i = bb.params.samples
    /\ bb' = [bb EXCEPT !.pc = "done"]
    /\ UNCHANGED NotBackbone

(***************************************************************************)
(* Claims on the backbone frames                                           *)
(***************************************************************************)
IsUnit(v) == Length2(v) = I(1)

Perpendicular(a, b) ==
    RAdd(RAdd(RMul(a.x, b.x), RMul(a.y, b.y)), RMul(a.z, b.z)) = I(0)

\* a = b for vectors on different roots: parallel, same sense, same length
SameVector(a, b) ==
    /\ IsZeroVec(Cross(a, b))
    /\ RLe(I(0), RAdd(RAdd(RMul(a.x, b.x), RMul(a.y, b.y)), RMul(a.z, b.z)))
    /\ RMul(SumSq(a), b.ss) = RMul(SumSq(b), a.ss)

RightHandedOrthonormal(f) ==
    /\ IsUnit(f.t) /\ IsUnit(f.n) /\ IsUnit(f.b)
    /\ Perpendicular(f.t, f.n) /\ Perpendicular(f.n, f.b)
    /\ Perpendicular(f.b, f.t)
    /\ SameVector(Cross(f.t, f.n), f.b)

\* C20: every frame (p, t, n, b) built by build_arc_backbone_frames is a
\* right-handed orthonormal triple, for ARC and for BOW with any tilt and lean,
\* at every sample index.
C20_FramesOrthonormal ==
    \A k \in 1..Len(bb.frames) : RightHandedOrthonormal(bb.frames[k])

(***************************************************************************)
(* The vector primitives called on their own (run_export.py)               *)
(*                                                                         *)
(* One call of unit(v) or of rot_axis_angle(v, axis, deg) on vectors the   *)
(* caller keeps: v0 and axis0 are the caller's vectors as passed, v and    *)
(* axis the same objects after the call.                                   *)
(***************************************************************************)
\* vectors of rational length, a non-unit one of each kind, and the zero vector
PrimitiveVectors ==
    {vec(I(1), I(0), I(0)), vec(I(0), I(2), I(0)), vec(I(0), I(0), I(1)),
     vec(I(1), I(2), I(2)), vec(I(3), I(0), I(4)), vec(Q(3, 5), Q(4, 5), I(0)),
     vec(I(0), I(0), I(0))}

\* axes of rational length: axisZ, a longer one, two off the z axis, none
PrimitiveAxes ==
    {vec(I(0), I(0), I(1)), vec(I(0), I(0), I(2)), vec(I(1), I(0), I(0)),
     vec(I(3), I(4), I(0)), vec(I(0), I(0), I(0))}

PrimitiveIdle ==
    [fn |-> "", pc |-> "idle", ang |-> Angle(I(0), I(1), I(0)),
     v0 |-> vec(I(0), I(0), I(0)), axis0 |-> vec(I(0), I(0), I(0)),
     v |-> vec(I(0), I(0), I(0)), axis |-> vec(I(0), I(0), I(0)),
     res |-> vec(I(0), I(0), I(0))]

\* the caller holds v (and axis) and is about to call fn
PrimitiveCall(fn, v, axis, ang) ==
    [fn |-> fn, pc |-> "called", ang |-> ang, v0 |-> v, axis0 |-> axis,
     v |-> v, axis |-> axis, res |-> vec(I(0), I(0), I(0))]

PrimitiveCalls ==
    {PrimitiveCall("unit", v, vec(I(0), I(0), I(0)), Angle(I(0), I(1), I(0))) :
        v \in PrimitiveVectors}
    \cup {PrimitiveCall("rot_axis_angle", v, axis, ang) :
            v \in PrimitiveVectors, axis \in PrimitiveAxes, ang \in BowAngles}

\* unit(v) runs and returns
CallUnit ==
    /\ vp.pc = "called"
    /\ vp.fn = "unit"
    /\ \E r \in {unit(vp.v)} :
          vp' = [vp EXCEPT !.pc = "returned", !.res = r.res, !.v = r.v]
    /\ UNCHANGED NotPrimitive

\* rot_axis_angle(v, axis, deg) runs and returns
CallRotAxisAngle ==
    /\ vp.pc = "called"
    /\ vp.fn = "rot_axis_angle"
    /\ \E r \in {rot_axis_angle(vp.v, vp.axis, vp.ang)} :
          vp' = [vp EXCEPT !.pc = "returned", !.res = r.res, !.v = r.v,
                           !.axis = r.axis]
    /\ UNCHANGED NotPrimitive

\* the components of a and b are the same numbers
SameComponents(a, b) ==
    /\ RMul(RMul(a.x, a.x), b.ss) = RMul(RMul(b.x, b.x), a.ss)
    /\ RMul(RMul(a.y, a.y), b.ss) = RMul(RMul(b.y, b.y), a.ss)
    /\ RMul(RMul(a.z, a.z), b.ss) = RMul(RMul(b.z, b.z), a.ss)
    /\ RLe(I(0), RMul(a.x, b.x))
    /\ RLe(I(0), RMul(a.y, b.y))
    /\ RLe(I(0), RMul(a.z, b.z))

\* C21: after unit(v) or rot_axis_angle(v, axis, deg) has returned, the
\* caller's v and axis hold the same component values as before the call.
C21_ArgumentsUnchanged ==
    vp.pc = "returned" =>
        /\ SameComponents(vp.v, vp.v0)
        /\ SameComponents(vp.axis, vp.axis0)

(***************************************************************************)
(* The HTTP workers: POST /run of fea-calculix-worker/main.py and          *)
(* POST /generate of cad-worker/main.py                                    *)
(*                                                                         *)
(* Each request is one run of its handler, taken statement group by        *)
(* statement group; the requests interleave and share the file system.     *)
(***************************************************************************)
MaxRequests == 2

Requests == 1..MaxRequests

\* str(uuid.uuid4())[:8]: eight hex digits, which two requests can share
JobIds == {"0a1b2c3d", "4e5f6a7b"}

\* the random part of a tempfile.mkdtemp name
Suffixes == {"s1", "s2"}

\* str(uuid.uuid4()) in full
Uuids == {"u1", "u2", "u3"}

NoDir == <<>>

\* what subprocess.run can do: raise TimeoutExpired, return with an exit
\* code, or raise OSError without a process
SolverOutcomes == {"timeout", "exit0", "exit1", "oserror"}

Received(worker) ==
    [worker |-> worker, pc |-> "received", job_id |-> "", job_dir |-> NoDir,
     starts |-> 0, outcome |-> "none", status |-> "", results |-> "none"]

JobsIdle == [dirs |-> {}, h |-> [r \in Requests |-> Received("")]]

\* the return statement or except clause taken by the handler: the response
\* is fixed and the finally clause is next
Respond(h, status, results) ==
    [h EXCEPT !.status = status, !.results = results, !.pc = "finally"]

\* run_fea_job after subprocess.run, a variant that runs the solver again
\* after a timeout
FeaAfterSolver_Retry(h, outcome) ==
    CASE outcome = "timeout" ->
            IF h.starts < 2 THEN [h EXCEPT !.pc = "run"]
            ELSE Respond(h, "error", "none")
      [] outcome = "oserror" -> Respond(h, "error", "none")
      [] outcome = "exit0" -> [h EXCEPT !.pc = "parse"]
      [] OTHER -> Respond(h, "failed", "none")

\* run_fea_job after subprocess.run: TimeoutExpired and any other exception
\* give status "error", a non-zero exit code gives "failed", and only exit
\* code 0 goes on to the parser
FeaAfterSolver(h, outcome) ==
    CASE outcome = "timeout" -> Respond(h, "error", "none")
      [] outcome = "oserror" -> Respond(h, "error", "none")
      [] outcome = "exit0" -> [h EXCEPT !.pc = "parse"]
      [] OTHER -> Respond(h, "failed", "none")

\* job_id = str(uuid.uuid4())[:8]; job_dir = Path(tempfile.mkdtemp(...)):
\* mkdtemp creates a directory that did not exist
FeaMkdtemp(r) ==
    /\ job.h[r].worker = "fea"
    /\ job.h[r].pc = "received"
    /\ \E id \in JobIds, s \in Suffixes :
          /\ <<"fea", id, s>> \notin job.dirs
          /\ job' = [dirs |-> job.dirs \cup {<<"fea", id, s>>},
                     h |-> [job.h EXCEPT ![r].job_id = id,
                                         ![r].job_dir = <<"fea", id, s>>,
                                         ![r].pc = "prepare"]]
    /\ UNCHANGED NotJobs

\* the deck is generated and written to job_dir, or one of these raises
FeaWriteInp(r) ==
    /\ job.h[r].worker = "fea"
    /\ job.h[r].pc = "prepare"
    /\ \E raised \in BOOLEAN :
          job' = [job EXCEPT !.h[r] =
                    IF raised THEN Respond(@, "error", "none")
                    ELSE [@ EXCEPT !.pc = "which"]]
    /\ UNCHANGED NotJobs

\* shutil.which("ccx"); the HTTPException raised when it is missing is
\* caught by the handler's own except Exception
FeaFindSolver(r) ==
    /\ job.h[r].worker = "fea"
    /\ job.h[r].pc = "which"
    /\ \E found \in BOOLEAN :
          job' = [job EXCEPT !.h[r] =
                    IF found THEN [@ EXCEPT !.pc = "run"]
                    ELSE Respond(@, "error", "none")]
    /\ UNCHANGED NotJobs

\* subprocess.run([ccx_path, "-i", job_name], ..., timeout=120) and the
\* test of result.returncode
FeaRunSolver(r) ==
    /\ job.h[r].worker = "fea"
    /\ job.h[r].pc = "run"
    /\ \E outcome \in SolverOutcomes :
          job' = [job EXCEPT !.h[r] =
                    FeaAfterSolver([@ EXCEPT !.starts = @ + 1,
                                             !.outcome = outcome], outcome)]
    /\ UNCHANGED NotJobs

\* parse_all_results and results_to_json, which raise or give a dict whose
\* "success" entry decides the status
FeaParseResults(r) ==
    /\ job.h[r].worker = "fea"
    /\ job.h[r].pc = "parse"
    /\ \E parsed \in {"success", "no success", "raised"} :
          job' = [job EXCEPT !.h[r] =
                    CASE parsed = "success" -> Respond(@, "success", "json")
                      [] parsed = "no success" -> Respond(@, "failed", "json")
                      [] OTHER -> Respond(@, "error", "none")]
    /\ UNCHANGED NotJobs

\* a cleanup that is reached only on the way out of a successful request
Rmtree_OnSuccess(dirs, h) ==
    IF h.status = "success" THEN dirs \ {h.job_dir} ELSE dirs

\* shutil.rmtree(job_dir) in the finally clause of either handler, reached
\* from every return and every except clause: the directory and all in it
\* are removed
Rmtree(dirs, h) == dirs \ {h.job_dir}

\* finally: shutil.rmtree(job_dir), and the response goes out
FeaCleanup(r) ==
    /\ job.h[r].worker = "fea"
    /\ job.h[r].pc = "finally"
    /\ job' = [dirs |-> Rmtree(job.dirs, job.h[r]),
               h |-> [job.h EXCEPT ![r].pc = "responded"]]
    /\ UNCHANGED NotJobs

\* generate: job_id = str(uuid.uuid4()), a value no other request has;
\* job_dir = TEMP_DIR/job_id; then, inside the try, os.makedirs and the
\* writing of design.json, either of which can raise
CadMakedirs(r) ==
    /\ job.h[r].worker = "cad"
    /\ job.h[r].pc = "received"
    /\ \E id \in Uuids, step \in {"makedirs raised", "write raised", "written"} :
          /\ \A q \in Requests : job.h[q].job_id # id
          /\ job' =
               [dirs |-> IF step = "makedirs raised" THEN job.dirs
                         ELSE job.dirs \cup {<<"cad", id>>},
                h |-> [job.h EXCEPT ![r] =
                         IF step = "written"
                         THEN [@ EXCEPT !.job_id = id, !.job_dir = <<"cad", id>>,
                                        !.pc = "run"]
                         ELSE Respond([@ EXCEPT !.job_id = id,
                                                !.job_dir = <<"cad", id>>],
                                      "http 500", "none")]]
    /\ UNCHANGED NotJobs

\* subprocess.run([FREECAD_CMD, SCRIPT_PATH], ..., timeout=120): every
\* exception and every non-zero exit code ends in HTTPException(500)
CadRunFreeCAD(r) ==
    /\ job.h[r].worker = "cad"
    /\ job.h[r].pc = "run"
    /\ \E outcome \in SolverOutcomes :
          job' = [job EXCEPT !.h[r] =
                    IF outcome = "exit0"
                    THEN [@ EXCEPT !.starts = @ + 1, !.outcome = outcome,
                                   !.pc = "parse"]
                    ELSE Respond([@ EXCEPT !.starts = @ + 1,
                                           !.outcome = outcome],
                                 "http 500", "none")]
    /\ UNCHANGED NotJobs

\* the RESULT_JSON marker, json.loads, the status test and the reading of
\* the exported files
CadReadResult(r) ==
    /\ job.h[r].worker = "cad"
    /\ job.h[r].pc = "parse"
    /\ \E parsed \in {"success", "no marker", "bad json", "failure status",
                       "file unreadable"} :
          job' = [job EXCEPT !.h[r] =
                    IF parsed = "success" THEN Respond(@, "success", "files")
                    ELSE Respond(@, "http 500", "none")]
    /\ UNCHANGED NotJobs

\* finally: if os.path.exists(job_dir): shutil.rmtree(job_dir)
CadCleanup(r) ==
    /\ job.h[r].worker = "cad"
    /\ job.h[r].pc = "finally"
    /\ job' = [dirs |-> IF job.h[r].job_dir \in job.dirs
                         THEN Rmtree(job.dirs, job.h[r]) ELSE job.dirs,
               h |-> [job.h EXCEPT ![r].pc = "responded"]]
    /\ UNCHANGED NotJobs

FeaRequests == {r \in Requests : job.h[r].worker = "fea"}

\* C22: a /run request starts the solver at most once; after a timeout the
\* response has status "error", after a non-zero exit code status "failed",
\* both without results; status "success" is only given after exit code 0.
C22_SolverOnceNoRetry ==
    \A r \in FeaRequests :
        LET h == job.h[r]
        IN  /\ h.starts <= 1
            /\ (h.pc = "responded" /\ h.outcome = "timeout") =>
                   (h.status = "error" /\ h.results = "none")
            /\ (h.pc = "responded" /\ h.outcome = "exit1") =>
                   (h.status = "failed" /\ h.results = "none")
            /\ h.status = "success" => h.outcome = "exit0"

\* two /run requests have responded, one after a timeout and one after a
\* non-zero exit code
C22_Witness ==
    /\ \E r \in FeaRequests :
          /\ job.h[r].pc = "responded"
          /\ job.h[r].outcome = "timeout"
          /\ job.h[r].starts = 1
    /\ \E r \in FeaRequests :
          /\ job.h[r].pc = "responded"
          /\ job.h[r].outcome = "exit1"

\* the requests whose handler is between its first statement and its end
InProgress == {r \in Requests : job.h[r].pc \notin {"received", "responded"}}

ExportFormats ==
    {<<"STEP">>, <<"STL">>, <<"STEP", "STL">>, <<"STL", "STEP">>, <<"STL", "PDF">>,
     <<>>}

ExtensionCall(formats) ==
    [formats |-> formats, pc |-> "hooks", failed |-> "none", spring |-> "none",
     files |-> <<>>, status |-> ""]

ExtensionIdle ==
    [formats |-> <<>>, pc |-> "idle", failed |-> "none", spring |-> "none",
     files |-> <<>>, status |-> ""]

\* the except clause of the hook + body path: the failure is printed and the
\* function goes on to the body-only path
UnifiedFailed(e, step) == [e EXCEPT !.failed = step, !.pc = "fallback"]

\* the body centerline (always more than 3 points) and the two hook
\* centerlines (never empty when they return)
ExtensionHooks ==
    /\ ext.pc = "hooks"
    /\ \E raised \in BOOLEAN :
          ext' = IF raised THEN UnifiedFailed(ext, "hook construction")
                 ELSE [ext EXCEPT !.pc = "spline"]
    /\ UNCHANGED NotExtension

\* path = make_bspline_from_points(centerline_pts)
ExtensionSpline ==
    /\ ext.pc = "spline"
    /\ \E raised \in BOOLEAN :
          ext' = IF raised THEN UnifiedFailed(ext, "spline fit")
                 ELSE [ext EXCEPT !.pc = "sweep"]
    /\ UNCHANGED NotExtension

\* spring_solid = sweep_wire_along_path(path, d) and the two tests of it
ExtensionSweep ==
    /\ ext.pc = "sweep"
    /\ \E shape \in {"solid", "raised", "null", "zero volume"} :
          ext' = CASE shape = "solid" ->
                        [ext EXCEPT !.spring = "with hooks", !.pc = "export"]
                   [] shape = "zero volume" -> UnifiedFailed(ext, "zero volume")
                   [] OTHER -> UnifiedFailed(ext, "sweep")
    /\ UNCHANGED NotExtension

\* the body-only path: the helix alone is fitted and swept; its solid is
\* returned, and only its own failure is raised
ExtensionFallback ==
    /\ ext.pc = "fallback"
    /\ \E shape \in {"solid", "raised", "null", "zero volume"} :
          ext' = IF shape = "solid"
                 THEN [ext EXCEPT !.spring = "body only", !.pc = "export"]
                 ELSE [ext EXCEPT !.spring = "raised", !.pc = "critical"]
    /\ UNCHANGED NotExtension

\* one pass of the export loop of main: a STEP export that raises ends main,
\* a failed STL or drawing export is printed and skipped
ExportFormat ==
    /\ ext.pc = "export"
    /\ Len(ext.files) < Len(ext.formats)
    /\ \E written \in BOOLEAN :
          LET fmt == ext.formats[Len(ext.files) + 1]
          IN  ext' = IF ~written /\ fmt = "STEP"
                     THEN [ext EXCEPT !.pc = "critical"]
                     ELSE [ext EXCEPT !.files =
                              Append(@, IF written THEN fmt ELSE "-")]
    /\ UNCHANGED NotExtension

\* after the loop: RESULT_JSON with "status": "success", and sys.exit(0)
ExportResult ==
    /\ ext.pc = "export"
    /\ Len(ext.files) = Len(ext.formats)
    /\ ext' = [ext EXCEPT !.status = "success", !.pc = "exit"]
    /\ UNCHANGED NotExtension

\* the except clause around main(): CRITICAL ERROR and sys.exit(1)
ExportCritical ==
    /\ ext.pc = "critical"
    /\ ext' = [ext EXCEPT !.status = "exit 1", !.pc = "exit"]
    /\ UNCHANGED NotExtension

\* C23: when the hook + body path of make_extension_spring has failed,
\* make_extension_spring ends in an error and the export does not report
\* status success for a spring without hooks.
C23_HookFailureSurfaced ==
    ext.failed # "none" =>
        /\ ext.spring # "body only"
        /\ ext.status # "success"

(***************************************************************************)
(* The beam deck of the FEA worker (inp_generator.py)                      *)
(*                                                                         *)
(* Angles are counted in turns; segments_per_coil is 4, so that every      *)
(* sample lies on a quarter turn and its cosine and sine are exact.        *)
(***************************************************************************)
\* dm_start, dm_end when they are None
NoDiameter == <<>>

\* h_wire: the axial height of the wire
h_wire(g) == IF g.section_type = "CIRC" THEN g.wire_diameter ELSE g.wire_thickness

\* dead_coils_per_end of generate_centerline
inp_dead_coils_per_end(g) == RDiv(RSub(g.total_coils, g.active_coils), I(2))

\* num_points = int(geom.total_coils * segments_per_coil)
num_points(g, segs) == PyInt(RMul(g.total_coils, I(segs)))

\* active_pitch, floored at the wire height
active_pitch(g) ==
    LET h == h_wire(g)
        active_space ==
            RSub(RSub(g.free_length, RMul(RMul(h, inp_dead_coils_per_end(g)), I(2))),
                 RMul(h, g.active_coils))
        p == IF RLt(I(0), g.active_coils)
             THEN RAdd(RDiv(active_space, g.active_coils), h) ELSE I(0)
    IN  IF RLt(p, h) THEN h ELSE p

\* theta / (2 * pi) at sample i
ThetaTurns(g, segs, i) == RMul(Q(i, num_points(g, segs)), g.total_coils)

\* the branch of the pitch test at sample i: theta < dead_angle, else
\* theta > total_angle - dead_angle, else the active pitch
PitchBranch(g, segs, i) ==
    LET theta == ThetaTurns(g, segs, i)
    IN  IF RLt(theta, inp_dead_coils_per_end(g)) THEN "bottom"
        ELSE IF RLt(RSub(g.total_coils, inp_dead_coils_per_end(g)), theta) THEN "top"
        ELSE "active"

PitchAt(g, segs, i) ==
    IF PitchBranch(g, segs, i) = "active" THEN active_pitch(g) ELSE h_wire(g)

\* the mean diameter at sample i
DmAt(g, segs, i) ==
    IF g.dm_start # NoDiameter /\ g.dm_end # NoDiameter
    THEN RAdd(g.dm_start, RMul(RSub(g.dm_end, g.dm_start), Q(i, num_points(g, segs))))
    ELSE g.mean_diameter

\* one pass of the loop of generate_centerline: the point of sample i, given
\* the z of the point before (h_wire / 2 to start with)
CenterlinePointAt(g, segs, i, z) ==
    LET deg == RMul(ThetaTurns(g, segs, i), I(360))
        radius == RDiv(DmAt(g, segs, i), I(2))
        delta == IF i > 0
                 THEN RMul(RSub(ThetaTurns(g, segs, i), ThetaTurns(g, segs, i - 1)),
                           PitchAt(g, segs, i))
                 ELSE I(0)
    IN  Vec(RMul(radius, CosDeg(deg)), RMul(radius, SinDeg(deg)), RAdd(z, delta))

Node(id, p) == [id |-> id, x |-> p.x, y |-> p.y, z |-> p.z]

Element(id, n1, n2, n3) == [id |-> id, n1 |-> n1, n2 |-> n2, n3 |-> n3]

MidPoint(a, b) ==
    Vec(RDiv(RAdd(a.x, b.x), I(2)), RDiv(RAdd(a.y, b.y), I(2)),
        RDiv(RAdd(a.z, b.z), I(2)))

\* create_nodes_elements with the midpoint ids counted from
\* num_corner_nodes + i
create_nodes_elements_MidFromCorner(centerline) ==
    LET N == Len(centerline)
    IN  [nodes |-> [k \in 1..(2 * N - 1) |->
                      IF k <= N THEN Node(k, centerline[k])
                      ELSE Node(k - 1,
                                MidPoint(centerline[k - N], centerline[k - N + 1]))],
         elements |-> [k \in 1..(N - 1) |-> Element(k, k, k + 1, N + k - 1)]]

\* create_nodes_elements: the corner nodes 1..N in the order of the points,
\* then for each pair of neighbours the midpoint node N + i + 1 and the
\* element (i + 1: i + 1, i + 2, N + i + 1)
create_nodes_elements(centerline) ==
    LET N == Len(centerline)
    IN  [nodes |-> [k \in 1..(2 * N - 1) |->
                      IF k <= N THEN Node(k, centerline[k])
                      ELSE Node(k, MidPoint(centerline[k - N], centerline[k - N + 1]))],
         elements |-> [k \in 1..(N - 1) |-> Element(k, k, k + 1, N + k)]]

\* what INP_TEMPLATE writes of the boundary conditions: NSET BOTTOM is the
\* literal 1, NSET TOP is top_node_id = len(nodes), and each step moves TOP
\* by target_height - free_length along z
RenderDeck(g, nodes, loadcases) ==
    [bottom |-> 1, top |-> Len(nodes),
     displacement |-> [k \in 1..Len(loadcases) |->
                          RSub(loadcases[k].target_height, g.free_length)]]

NoDeck == [bottom |-> 0, top |-> 0, displacement |-> <<>>]

\* total_coils and active_coils: the dead/active boundary on a sample point
\* (2 and 1, 2 and 3/2, 5/2 and 3/2, 3 and 2), half-way between two (2 and
\* 7/4), elsewhere (2 and 13/8), and the shortest centerlines (1/4, 1/2)
InpCoils ==
    {<<I(2), I(1)>>, <<I(2), Q(3, 2)>>, <<I(2), Q(7, 4)>>, <<I(2), Q(13, 8)>>,
     <<Q(5, 2), Q(3, 2)>>, <<I(3), I(2)>>, <<Q(1, 4), Q(1, 8)>>,
     <<Q(1, 2), Q(1, 4)>>}

InpGeometries ==
    {[section_type |-> st, wire_diameter |-> I(2), wire_width |-> I(3),
      wire_thickness |-> I(1), mean_diameter |-> I(20),
      active_coils |-> c[2], total_coils |-> c[1], free_length |-> L0,
      dm_start |-> dm[1], dm_mid |-> NoDiameter, dm_end |-> dm[2]] :
        st \in {"CIRC", "RECT"}, c \in InpCoils, L0 \in {I(30), I(6), I(2)},
        dm \in {<<NoDiameter, NoDiameter>>, <<I(16), I(24)>>}}

InpLoadcases ==
    {<<>>, <<[name |-> "RIDE", target_height |-> I(5)]>>,
     <<[name |-> "RIDE", target_height |-> I(5)],
       [name |-> "BUMP", target_height |-> I(4)]>>}

InpCall(g, segs, loadcases) ==
    [geom |-> g, segments_per_coil |-> segs, loadcases |-> loadcases,
     pc |-> "centerline", i |-> 0, points |-> <<>>, branch |-> <<>>,
     nodes |-> <<>>, elements |-> <<>>, deck |-> NoDeck]

InpIdle ==
    [geom |-> [section_type |-> "", wire_diameter |-> I(0), wire_width |-> I(0),
               wire_thickness |-> I(0), mean_diameter |-> I(0),
               active_coils |-> I(0), total_coils |-> I(0), free_length |-> I(0),
               dm_start |-> NoDiameter, dm_mid |-> NoDiameter,
               dm_end |-> NoDiameter],
     segments_per_coil |-> 0, loadcases |-> <<>>, pc |-> "idle", i |-> 0,
     points |-> <<>>, branch |-> <<>>, nodes |-> <<>>, elements |-> <<>>,
     deck |-> NoDeck]

\* generate_centerline, one sample per step; the list is returned after
\* sample num_points
CenterlinePoint ==
    /\ inp.pc = "centerline"
    /\ LET g == inp.geom
           segs == inp.segments_per_coil
           i == inp.i
           z == IF i = 0 THEN RDiv(h_wire(g), I(2)) ELSE inp.points[i].z
       IN  \E p \in {CenterlinePointAt(g, segs, i, z)} :
              inp' = [inp EXCEPT
                        !.points = Append(@, p),
                        !.branch = IF i = 0 THEN @
                                   ELSE Append(@, PitchBranch(g, segs, i)),
                        !.i = i + 1,
                        !.pc = IF i = num_points(g, segs) THEN "nodes" ELSE @]
    /\ UNCHANGED NotInp

\* nodes, elements = create_nodes_elements(centerline)
CreateNodesElements ==
    /\ inp.pc = "nodes"
    /\ \E ne \in {create_nodes_elements(inp.points)} :
          inp' = [inp EXCEPT !.nodes = ne.nodes, !.elements = ne.elements,
                             !.pc = "render"]
    /\ UNCHANGED NotInp

\* template.render(**template_params)
RenderInp ==
    /\ inp.pc = "render"
    /\ inp' = [inp EXCEPT !.deck = RenderDeck(inp.geom, inp.nodes, inp.loadcases),
                          !.pc = "done"]
    /\ UNCHANGED NotInp

\* the node of the deck with this id
NodeWithId(id) == CHOOSE nd \in {inp.nodes[k] : k \in 1..Len(inp.nodes)} : nd.id = id

NodeIsAt(id, p) ==
    /\ \E k \in 1..Len(inp.nodes) : inp.nodes[k].id = id
    /\ NodeWithId(id).x = p.x
    /\ NodeWithId(id).y = p.y
    /\ NodeWithId(id).z = p.z

\* C24: in the deck of generate_inp, node set BOTTOM is the node at the
\* first centerline point and node set TOP, which receives the displacement
\* target_height - free_length, is the node at the last centerline point.
C24_TopIsLastPoint ==
    inp.pc = "done" =>
        /\ NodeIsAt(inp.deck.bottom, inp.points[1])
        /\ NodeIsAt(inp.deck.top, inp.points[Len(inp.points)])

\* the geometries C25 speaks of: free_length >= total_coils * h_wire and
\* total_coils > active_coils > 0
SpanPrecondition(g) ==
    /\ RLe(RMul(g.total_coils, h_wire(g)), g.free_length)
    /\ RLt(g.active_coils, g.total_coils)
    /\ RLt(I(0), g.active_coils)

\* the number of increments that took this branch of the pitch test
BranchCount(b) == Cardinality({k \in 1..Len(inp.branch) : inp.branch[k] = b})

ZSpan == RSub(inp.points[Len(inp.points)].z, inp.points[1].z)

\* C25: for free_length >= total_coils * h_wire and total_coils >
\* active_coils > 0 the returned centerline spans exactly free_length in z
\* and has as many dead-pitch increments at the bottom as at the top.
C25_SpanIsFreeLength ==
    (inp.pc \in {"nodes", "render", "done"} /\ SpanPrecondition(inp.geom)) =>
        /\ ZSpan = inp.geom.free_length
        /\ BranchCount("bottom") = BranchCount("top")

\* C29: for a centerline of N >= 2 points create_nodes_elements returns
\* 2N-1 nodes with the distinct ids 1..2N-1 and N-1 elements with the ids
\* 1..N-1; the three nodes of an element are distinct existing nodes, the
\* third is at the midpoint of the first two, and each element starts at the
\* node where the one before ends, from node 1 to node N.
C29_NodesAndElements ==
    inp.pc \in {"render", "done"} =>
        LET N == Len(inp.points)
            ids == {inp.nodes[k].id : k \in 1..Len(inp.nodes)}
            el == inp.elements
        IN  /\ Len(inp.nodes) = 2 * N - 1
            /\ ids = 1..(2 * N - 1)
            /\ Len(el) = N - 1
            /\ \A k \in 1..Len(el) :
                   /\ el[k].id = k
                   /\ Cardinality({el[k].n1, el[k].n2, el[k].n3}) = 3
                   /\ {el[k].n1, el[k].n2, el[k].n3} \subseteq ids
                   /\ NodeIsAt(el[k].n3,
                               MidPoint(NodeWithId(el[k].n1), NodeWithId(el[k].n2)))
                   /\ k < Len(el) => el[k].n2 = el[k + 1].n1
            /\ el[1].n1 = 1
            /\ el[Len(el)].n2 = N
            /\ \A k \in 1..N : NodeIsAt(k, inp.points[k])

\* nodes and elements of the shortest centerline, two points
C29_Witness ==
    /\ inp.pc = "render"
    /\ Len(inp.points) = 2
    /\ Len(inp.elements) = 1

(***************************************************************************)
(* The results of the FEA worker (result_parser.py)                        *)
(***************************************************************************)
MAX_VIZ_NODES == 500

\* the largest number of stress nodes parsed from the .frd file
MaxStressNodes == 1050

\* a[::step_size]
EveryNth(a, step_size) ==
    [k \in 1..((Len(a) + step_size - 1) \div step_size) |-> a[(k - 1) * step_size + 1]]

\* the sampling of results_to_json: beyond MAX_VIZ_NODES entries every
\* (len // MAX_VIZ_NODES)-th one is kept
SampleForViz(all_stresses) ==
    IF Len(all_stresses) > MAX_VIZ_NODES
    THEN EveryNth(all_stresses, Len(all_stresses) \div MAX_VIZ_NODES)
    ELSE all_stresses

results_to_json(results) ==
    [success |-> Len(results.errors) = 0 /\ results.converged,
     converged |-> results.converged,
     errors |-> results.errors,
     node_stresses |-> SampleForViz(results.node_stresses)]

\* the FeaResults of parse_all_results: one step with the stress nodes of
\* the .frd file, and the one error of a run that did not converge
FeaResults(count, converged) ==
    [node_stresses |-> [k \in 1..count |-> k],
     errors |-> IF converged THEN <<>> ELSE <<"Solution did not converge">>,
     converged |-> converged]

NoJson == [success |-> FALSE, converged |-> FALSE, errors |-> <<>>,
           node_stresses |-> <<>>]

ResultsIdle == [results |-> FeaResults(0, TRUE), json |-> NoJson, pc |-> "idle"]

ResultsCall(results) == [results |-> results, json |-> NoJson, pc |-> "parsed"]

\* results_json = results_to_json(fea_results)
ResultsToJson ==
    /\ res.pc = "parsed"
    /\ \E j \in {results_to_json(res.results)} :
          res' = [res EXCEPT !.json = j, !.pc = "returned"]
    /\ UNCHANGED NotResults

\* C26: whatever the number of parsed stress nodes, node_stresses of the
\* returned dict has at most MAX_VIZ_NODES entries.
C26_AtMostMaxVizNodes ==
    res.pc = "returned" => Len(res.json.node_stresses) <= MAX_VIZ_NODES

(***************************************************************************)
(* make_arc_spring and its call from main (run_export.py)                  *)
(***************************************************************************)
required == <<"d", "D", "n", "r", "alphaDeg", "profile">>

RequiredKeys == {required[k] : k \in 1..Len(required)}

\* what a key of the geometry can hold
ValueKinds == {"absent", "number", "null", "text"}

IsAbsent(kind) == kind = "absent"

\* the first missing key alone
MissingParams_First(params) ==
    LET all == SelectSeq(required, LAMBDA k : IsAbsent(params[k]))
    IN  IF all = <<>> THEN <<>> ELSE <<all[1]>>

\* missing = [k for k in required if k not in params]
MissingParams(params) == SelectSeq(required, LAMBDA k : IsAbsent(params[k]))

NoError == [type |-> "", text |-> "", names |-> <<>>]

\* ValueError("ARC_SPRING missing params: " + ", ".join(missing))
MissingError(missing) ==
    [type |-> "ValueError", text |-> "ARC_SPRING missing params", names |-> missing]

\* float(params[k]) for d, D, n, r, alphaDeg in turn: the error of the first
\* value that is no number, or none
ConvertError(params) ==
    LET bad == SelectSeq(SubSeq(required, 1, 5), LAMBDA k : params[k] # "number")
    IN  IF bad = <<>> THEN NoError
        ELSE IF params[bad[1]] = "null"
        THEN [type |-> "TypeError", text |-> "float() argument", names |-> <<bad[1]>>]
        ELSE [type |-> "ValueError", text |-> "could not convert string to float",
              names |-> <<bad[1]>>]

MakeArcCall(params, via) ==
    [params |-> params, via |-> via, pc |-> IF via = "main" THEN "main" ELSE "called",
     checked |-> FALSE, error |-> NoError, computed |-> {}, printed |-> <<>>]

MakeArcIdle ==
    [params |-> [k \in RequiredKeys |-> "absent"], via |-> "", pc |-> "idle",
     checked |-> FALSE, error |-> NoError, computed |-> {}, printed |-> <<>>]

\* main, springType arc: the required keys are tested first; with one
\* missing the keys are printed and the script exits with 1
MainArcRequired ==
    /\ mk.pc = "main"
    /\ \E missing \in {MissingParams(mk.params)} :
          mk' = IF missing # <<>>
                THEN [mk EXCEPT !.printed = missing, !.pc = "exit 1"]
                ELSE [mk EXCEPT !.pc = "called"]
    /\ UNCHANGED NotMakeArc

\* make_arc_spring, the test of the required keys
ArcRequired ==
    /\ mk.pc = "called"
    /\ \E missing \in {MissingParams(mk.params)} :
          mk' = IF missing # <<>>
                THEN [mk EXCEPT !.checked = TRUE, !.error = MissingError(missing),
                                !.pc = "raised"]
                ELSE [mk EXCEPT !.checked = TRUE, !.pc = "convert"]
    /\ UNCHANGED NotMakeArc

\* the conversions of the required and the optional values
ArcConvert ==
    /\ mk.pc = "convert"
    /\ \E e \in {ConvertError(mk.params)} :
          mk' = IF e # NoError THEN [mk EXCEPT !.error = e, !.pc = "raised"]
                ELSE [mk EXCEPT !.pc = "frames"]
    /\ UNCHANGED NotMakeArc

\* frames = build_arc_backbone_frames(...); L, Ltot = accumulated_lengths
ArcFrames ==
    /\ mk.pc = "frames"
    /\ mk' = [mk EXCEPT !.computed = @ \cup {"frames"}, !.pc = "turn map"]
    /\ UNCHANGED NotMakeArc

\* T_map, ... = blended_anchor_turns_map(...)
ArcTurnMap ==
    /\ mk.pc = "turn map"
    /\ mk' = [mk EXCEPT !.computed = @ \cup {"turn map"}, !.pc = "solid"]
    /\ UNCHANGED NotMakeArc

\* the spine, the profile and the sweep; the kernel gives a solid or raises
ArcSolid ==
    /\ mk.pc = "solid"
    /\ \E swept \in BOOLEAN :
          mk' = IF swept
                THEN [mk EXCEPT !.computed = @ \cup {"solid"}, !.pc = "returned"]
                ELSE [mk EXCEPT !.error = [type |-> "Exception", text |-> "sweep",
                                           names |-> <<>>],
                                !.pc = "raised"]
    /\ UNCHANGED NotMakeArc

AbsentKeys == {k \in RequiredKeys : mk.params[k] = "absent"}

NamedKeys == {mk.error.names[k] : k \in 1..Len(mk.error.names)}

\* C27: make_arc_spring called with a required key absent raises the
\* ValueError that names every absent key, with no frame, turn map or solid
\* computed; with all six keys present that error is never raised.
C27_MissingParamsRaise ==
    /\ (mk.checked /\ AbsentKeys # {}) =>
           /\ mk.pc = "raised"
           /\ mk.error.type = "ValueError"
           /\ mk.error.text = "ARC_SPRING missing params"
           /\ NamedKeys = AbsentKeys
           /\ mk.computed = {}
    /\ AbsentKeys = {} => mk.error.text # "ARC_SPRING missing params"
    /\ mk.computed # {} => AbsentKeys = {}

\* a direct call without D and profile has raised
C27_Witness ==
    /\ mk.via = "direct"
    /\ mk.pc = "raised"
    /\ AbsentKeys = {"D", "profile"}
    /\ mk.error.names = <<"D", "profile">>

(***************************************************************************)
(* The total angle of the torsion body (run_export.py)                     *)
(*                                                                         *)
(* Every angle is kept in degrees as an exact rational, so that pi is 180  *)
(* and 2 * pi is 360; math.radians only changes the unit.                  *)
(***************************************************************************)
PI == I(180)

TWO_PI == I(360)

\* the largest integer not above q
RFloor(q) == q[1] \div q[2]

\* Python's a % m for m > 0: the remainder takes the sign of m, in [0, m)
PyMod(a, m) == RSub(a, RMul(m, I(RFloor(RDiv(a, m)))))

\* normalize_angle_torsion without the wrap of the angles above pi
normalize_angle_torsion_NoWrap(angle) ==
    LET a == PyMod(angle, TWO_PI)
    IN  IF RLe(a, RNeg(PI)) THEN RAdd(a, TWO_PI) ELSE a

\* normalize_angle_torsion: a = angle % TWO_PI; if a <= -pi: a += TWO_PI;
\* if a > pi: a -= TWO_PI
normalize_angle_torsion(angle) ==
    LET a == PyMod(angle, TWO_PI)
        b == IF RLe(a, RNeg(PI)) THEN RAdd(a, TWO_PI) ELSE a
    IN  IF RLt(PI, b) THEN RSub(b, TWO_PI) ELSE b

\* calculate_torsion_total_angle with its locals
calculate_torsion_total_angle(active_coils, free_deg, working_deg, winding) ==
    LET dir_mult == IF winding = "left" THEN I(-1) ELSE I(1)
        current_leg_angle == RSub(free_deg, working_deg)
        base_angle == RMul(TWO_PI, active_coils)
        target_end_angle == normalize_angle_torsion(RSub(PI, current_leg_angle))
        base_end_angle == normalize_angle_torsion(base_angle)
        extra_angle == normalize_angle_torsion(RSub(target_end_angle, base_end_angle))
        total_angle == RAdd(base_angle, extra_angle)
    IN  [base_angle |-> base_angle, target_end_angle |-> target_end_angle,
         base_end_angle |-> base_end_angle, extra_angle |-> extra_angle,
         result |-> RMul(total_angle, dir_mult)]

\* angles on and around the ends of (-pi, pi] and whole turns away from them
TorsionAngles ==
    {I(0), I(180), I(-180), I(181), I(-181), I(360), I(-360), I(540), I(-540),
     I(90), I(-90), Q(1, 2), Q(-1, 2), I(725), I(-725), Q(3599, 10)}

TorsionCoils == {I(1), Q(5, 2), I(3), Q(13, 4), Q(23, 4), Q(61, 10)}

TorsionLegAngles == {I(0), I(30), I(90), I(180), I(200), I(270), I(360)}

TorsionAngleIdle ==
    [fn |-> "", pc |-> "idle", angle |-> I(0), active_coils |-> I(0),
     free_angle_deg |-> I(0), working_angle_deg |-> I(0), winding_direction |-> "",
     base_angle |-> I(0), target_end_angle |-> I(0), base_end_angle |-> I(0),
     extra_angle |-> I(0), result |-> I(0)]

NormalizeAngleCall(angle) ==
    [TorsionAngleIdle EXCEPT !.fn = "normalize_angle_torsion", !.pc = "called",
                             !.angle = angle]

TotalAngleCall(Na, free, working, winding) ==
    [TorsionAngleIdle EXCEPT !.fn = "calculate_torsion_total_angle",
                             !.pc = "called", !.active_coils = Na,
                             !.free_angle_deg = free, !.working_angle_deg = working,
                             !.winding_direction = winding]

NormalizeAngleTorsion ==
    /\ tor.pc = "called"
    /\ tor.fn = "normalize_angle_torsion"
    /\ tor' = [tor EXCEPT !.result = normalize_angle_torsion(tor.angle),
                          !.pc = "returned"]
    /\ UNCHANGED NotTorsionAngle

CalculateTorsionTotalAngle ==
    /\ tor.pc = "called"
    /\ tor.fn = "calculate_torsion_total_angle"
    /\ \E r \in {calculate_torsion_total_angle(tor.active_coils, tor.free_angle_deg,
                    tor.working_angle_deg, tor.winding_direction)} :
          tor' = [tor EXCEPT !.base_angle = r.base_angle,
                             !.target_end_angle = r.target_end_angle,
                             !.base_end_angle = r.base_end_angle,
                             !.extra_angle = r.extra_angle,
                             !.result = r.result, !.pc = "returned"]
    /\ UNCHANGED NotTorsionAngle

\* a and b differ by a whole number of turns
CongruentAngles(a, b) == PyMod(RSub(a, b), TWO_PI) = I(0)

\* a in (-pi, pi]
InHalfOpenTurn(a) == RLt(RNeg(PI), a) /\ RLe(a, PI)

\* the total angle without the sign of the winding direction
UnsignedTotal ==
    IF tor.winding_direction = "left" THEN RNeg(tor.result) ELSE tor.result

\* C30: the total angle returned, up to the sign of the winding direction,
\* is congruent modulo 2 * pi to pi - (freeAngle - workingAngle) and at most
\* pi away from 2 * pi * activeCoils; every result of
\* normalize_angle_torsion lies in (-pi, pi] and is congruent modulo 2 * pi
\* to its argument.
C30_TotalAngle ==
    /\ (tor.pc = "returned" /\ tor.fn = "calculate_torsion_total_angle") =>
           /\ CongruentAngles(UnsignedTotal,
                  RSub(PI, RSub(tor.free_angle_deg, tor.working_angle_deg)))
           /\ RLe(RAbs(RSub(UnsignedTotal, RMul(TWO_PI, tor.active_coils))), PI)
           /\ InHalfOpenTurn(tor.target_end_angle)
           /\ InHalfOpenTurn(tor.base_end_angle)
           /\ InHalfOpenTurn(tor.extra_angle)
           /\ CongruentAngles(tor.base_end_angle, tor.base_angle)
    /\ (tor.pc = "returned" /\ tor.fn = "normalize_angle_torsion") =>
           /\ InHalfOpenTurn(tor.result)
           /\ CongruentAngles(tor.result, tor.angle)

\* a left-wound body of 13/4 coils whose total angle is the whole coils
\* less a part of a turn
C30_Witness ==
    /\ tor.pc = "returned"
    /\ tor.fn = "calculate_torsion_total_angle"
    /\ tor.winding_direction = "left"
    /\ tor.active_coils = Q(13, 4)
    /\ RLt(tor.extra_angle, I(0))
    /\ RLt(tor.result, I(0))

(***************************************************************************)
(* Specifications: one per generator; the other generators stay idle       *)
(***************************************************************************)
InitCompression ==
    /\ comp \in {CompStart(p) : p \in CompressionParams}
    /\ arc = ArcIdle
    /\ rc = ClampIdle
    /\ hook = HookIdle
    /\ norm = NormIdle
    /\ wave = WaveIdle
    /\ bb = BackboneIdle
    /\ vp = PrimitiveIdle
    /\ job = JobsIdle
    /\ ext = ExtensionIdle
    /\ inp = InpIdle
    /\ res = ResultsIdle
    /\ mk = MakeArcIdle
    /\ tor = TorsionAngleIdle

NextCompression == CompSample \/ CompReturn

SpecCompression == InitCompression /\ [][NextCompression]_vars

InitArc ==
    /\ arc \in {ArcStart(p) : p \in ArcParams}
    /\ comp = CompIdle
    /\ rc = ClampIdle
    /\ hook = HookIdle
    /\ norm = NormIdle
    /\ wave = WaveIdle
    /\ bb = BackboneIdle
    /\ vp = PrimitiveIdle
    /\ job = JobsIdle
    /\ ext = ExtensionIdle
    /\ inp = InpIdle
    /\ res = ResultsIdle
    /\ mk = MakeArcIdle
    /\ tor = TorsionAngleIdle

NextArc == ArcAccumulate \/ ArcMap

SpecArc == InitArc /\ [][NextArc]_vars

InitClamp ==
    /\ rc \in {ClampStart(impl, Vec(x, y, z), m) :
                 impl \in ClampImpls, x \in ClampCoords, y \in ClampCoords,
                 z \in {I(0), I(5)}, m \in ClampRadii}
    /\ comp = CompIdle
    /\ arc = ArcIdle
    /\ hook = HookIdle
    /\ norm = NormIdle
    /\ wave = WaveIdle
    /\ bb = BackboneIdle
    /\ vp = PrimitiveIdle
    /\ job = JobsIdle
    /\ ext = ExtensionIdle
    /\ inp = InpIdle
    /\ res = ResultsIdle
    /\ mk = MakeArcIdle
    /\ tor = TorsionAngleIdle

NextClamp == ApplyClamp

SpecClamp == InitClamp /\ [][NextClamp]_vars

InitHook ==
    /\ hook \in {HookCall(b, k, sz, st, he) :
                   b \in HookBuilders, k \in HookKinds, sz \in HookSizes,
                   st \in BOOLEAN, he \in HelixEnds}
    /\ comp = CompIdle
    /\ arc = ArcIdle
    /\ rc = ClampIdle
    /\ norm = NormIdle
    /\ wave = WaveIdle
    /\ bb = BackboneIdle
    /\ vp = PrimitiveIdle
    /\ job = JobsIdle
    /\ ext = ExtensionIdle
    /\ inp = InpIdle
    /\ res = ResultsIdle
    /\ mk = MakeArcIdle
    /\ tor = TorsionAngleIdle

NextHook == BuildExtensionHook \/ BuildHook \/ JoinBody

SpecHook == InitHook /\ [][NextHook]_vars

InitNorm ==
    /\ norm \in {NormCall("normalize_extension_params", g) : g \in RawExtension}
               \cup {NormCall("normalize_torsion_params", g) : g \in RawTorsion}
    /\ comp = CompIdle
    /\ arc = ArcIdle
    /\ rc = ClampIdle
    /\ hook = HookIdle
    /\ wave = WaveIdle
    /\ bb = BackboneIdle
    /\ vp = PrimitiveIdle
    /\ job = JobsIdle
    /\ ext = ExtensionIdle
    /\ inp = InpIdle
    /\ res = ResultsIdle
    /\ mk = MakeArcIdle
    /\ tor = TorsionAngleIdle

NextNorm == NormalizeExtension \/ NormalizeTorsion

SpecNorm == InitNorm /\ [][NextNorm]_vars

InitWave ==
    /\ wave \in {WaveCall(gen, g) : gen \in WaveGenerators, g \in WaveGeometries}
    /\ comp = CompIdle
    /\ arc = ArcIdle
    /\ rc = ClampIdle
    /\ hook = HookIdle
    /\ norm = NormIdle
    /\ bb = BackboneIdle
    /\ vp = PrimitiveIdle
    /\ job = JobsIdle
    /\ ext = ExtensionIdle
    /\ inp = InpIdle
    /\ res = ResultsIdle
    /\ mk = MakeArcIdle
    /\ tor = TorsionAngleIdle

NextWave == WaveShellRow \/ WaveBeamNode \/ WaveRender

SpecWave == InitWave /\ [][NextWave]_vars

InitBackbone ==
    /\ bb \in {BackboneCall(P) : P \in BackboneParams}
    /\ comp = CompIdle
    /\ arc = ArcIdle
    /\ rc = ClampIdle
    /\ hook = HookIdle
    /\ norm = NormIdle
    /\ wave = WaveIdle
    /\ vp = PrimitiveIdle
    /\ job = JobsIdle
    /\ ext = ExtensionIdle
    /\ inp = InpIdle
    /\ res = ResultsIdle
    /\ mk = MakeArcIdle
    /\ tor = TorsionAngleIdle

NextBackbone == BackboneSample \/ BackboneReturn

SpecBackbone == InitBackbone /\ [][NextBackbone]_vars

InitPrimitive ==
    /\ vp \in PrimitiveCalls
    /\ comp = CompIdle
    /\ arc = ArcIdle
    /\ rc = ClampIdle
    /\ hook = HookIdle
    /\ norm = NormIdle
    /\ wave = WaveIdle
    /\ bb = BackboneIdle
    /\ job = JobsIdle
    /\ ext = ExtensionIdle
    /\ inp = InpIdle
    /\ res = ResultsIdle
    /\ mk = MakeArcIdle
    /\ tor = TorsionAngleIdle

NextPrimitive == CallUnit \/ CallRotAxisAngle

SpecPrimitive == InitPrimitive /\ [][NextPrimitive]_vars

InitJobs ==
    /\ job \in {[dirs |-> {}, h |-> [r \in Requests |-> Received(worker)]] :
                   worker \in {"fea", "cad"}}
    /\ comp = CompIdle
    /\ arc = ArcIdle
    /\ rc = ClampIdle
    /\ hook = HookIdle
    /\ norm = NormIdle
    /\ wave = WaveIdle
    /\ bb = BackboneIdle
    /\ vp = PrimitiveIdle
    /\ ext = ExtensionIdle
    /\ inp = InpIdle
    /\ res = ResultsIdle
    /\ mk = MakeArcIdle
    /\ tor = TorsionAngleIdle

NextJobs ==
    \E r \in Requests :
        \/ FeaMkdtemp(r)
        \/ FeaWriteInp(r)
        \/ FeaFindSolver(r)
        \/ FeaRunSolver(r)
        \/ FeaParseResults(r)
        \/ FeaCleanup(r)
        \/ CadMakedirs(r)
        \/ CadRunFreeCAD(r)
        \/ CadReadResult(r)
        \/ CadCleanup(r)

SpecJobs == InitJobs /\ [][NextJobs]_vars

InitExtension ==
    /\ ext \in {ExtensionCall(formats) : formats \in ExportFormats}
    /\ comp = CompIdle
    /\ arc = ArcIdle
    /\ rc = ClampIdle
    /\ hook = HookIdle
    /\ norm = NormIdle
    /\ wave = WaveIdle
    /\ bb = BackboneIdle
    /\ vp = PrimitiveIdle
    /\ job = JobsIdle
    /\ inp = InpIdle
    /\ res = ResultsIdle
    /\ mk = MakeArcIdle
    /\ tor = TorsionAngleIdle

NextExtension ==
    \/ ExtensionHooks
    \/ ExtensionSpline
    \/ ExtensionSweep
    \/ ExtensionFallback
    \/ ExportFormat
    \/ ExportResult
    \/ ExportCritical

SpecExtension == InitExtension /\ [][NextExtension]_vars

InitInp ==
    /\ inp \in {InpCall(g, 4, lcs) : g \in InpGeometries, lcs \in InpLoadcases}
    /\ comp = CompIdle
    /\ arc = ArcIdle
    /\ rc = ClampIdle
    /\ hook = HookIdle
    /\ norm = NormIdle
    /\ wave = WaveIdle
    /\ bb = BackboneIdle
    /\ vp = PrimitiveIdle
    /\ job = JobsIdle
    /\ ext = ExtensionIdle
    /\ res = ResultsIdle
    /\ mk = MakeArcIdle
    /\ tor = TorsionAngleIdle

NextInp == CenterlinePoint \/ CreateNodesElements \/ RenderInp

SpecInp == InitInp /\ [][NextInp]_vars

InitResults ==
    /\ res \in {ResultsCall(FeaResults(count, converged)) :
                   count \in 0..MaxStressNodes, converged \in BOOLEAN}
    /\ comp = CompIdle
    /\ arc = ArcIdle
    /\ rc = ClampIdle
    /\ hook = HookIdle
    /\ norm = NormIdle
    /\ wave = WaveIdle
    /\ bb = BackboneIdle
    /\ vp = PrimitiveIdle
    /\ job = JobsIdle
    /\ ext = ExtensionIdle
    /\ inp = InpIdle
    /\ mk = MakeArcIdle
    /\ tor = TorsionAngleIdle

NextResults == ResultsToJson

SpecResults == InitResults /\ [][NextResults]_vars

InitMakeArc ==
    /\ mk \in {MakeArcCall(params, via) :
                  params \in [RequiredKeys -> ValueKinds], via \in {"direct", "main"}}
    /\ comp = CompIdle
    /\ arc = ArcIdle
    /\ rc = ClampIdle
    /\ hook = HookIdle
    /\ norm = NormIdle
    /\ wave = WaveIdle
    /\ bb = BackboneIdle
    /\ vp = PrimitiveIdle
    /\ job = JobsIdle
    /\ ext = ExtensionIdle
    /\ inp = InpIdle
    /\ res = ResultsIdle
    /\ tor = TorsionAngleIdle

NextMakeArc ==
    \/ MainArcRequired
    \/ ArcRequired
    \/ ArcConvert
    \/ ArcFrames
    \/ ArcTurnMap
    \/ ArcSolid

SpecMakeArc == InitMakeArc /\ [][NextMakeArc]_vars

InitTorsionAngle ==
    /\ tor \in {NormalizeAngleCall(angle) : angle \in TorsionAngles}
              \cup {TotalAngleCall(Na, free, working, winding) :
                      Na \in TorsionCoils, free \in TorsionLegAngles,
                      working \in {I(0), I(30), I(200)},
                      winding \in {"left", "right"}}
    /\ comp = CompIdle
    /\ arc = ArcIdle
    /\ rc = ClampIdle
    /\ hook = HookIdle
    /\ norm = NormIdle
    /\ wave = WaveIdle
    /\ bb = BackboneIdle
    /\ vp = PrimitiveIdle
    /\ job = JobsIdle
    /\ ext = ExtensionIdle
    /\ inp = InpIdle
    /\ res = ResultsIdle
    /\ mk = MakeArcIdle

NextTorsionAngle == NormalizeAngleTorsion \/ CalculateTorsionTotalAngle

SpecTorsionAngle == InitTorsionAngle /\ [][NextTorsionAngle]_vars

====
